---- MODULE Spec2Model ----
(***************************************************************************)
(* State-machine model of the NRBLOG real-time layer:                      *)
(*   backend/socket/socket.js          (admission, registry, rooms, the    *)
(*                                      client-originated socket events)   *)
(*   backend/controllers/postController.js  (HTTP handlers that emit)      *)
(*                                                                         *)
(* JavaScript strings are sequences of one-character strings, so that      *)
(* startsWith, the object-id pattern and template strings are computed.    *)
(* JavaScript values that a client may send are tagged records.            *)
(***************************************************************************)
EXTENDS Integers, Sequences, FiniteSets, TLC

VARIABLES
  sockets,        \* socket id -> [st, userId, err]: the transport's connections
  userSocketMap,  \* socket.js:26, user id -> socket id (NoSocket: no key)
  rooms,          \* socket id -> set of joined room names (socket.io adapter)
  out,            \* the events emitted by the handler step that ran last
  escaped,        \* the exception that left a handler uncaught, "none" if none
  postStore,      \* the Post collection: post id -> document, NoPost if absent
  created,        \* how many comments commentOnPost has created
  tasks,          \* the handler invocations suspended at an await
  messageStore,   \* the Message collection: message id -> document, Null if absent
  conversationStore, \* the Conversation collection: id -> document, Null if absent
  typingUsers,    \* socket.js:27, the set of keys `${conversationId}:${userId}`
  userBookmarks   \* the bookmarks field of the User collection: user id -> post ids

vars == <<sockets, userSocketMap, rooms, out, escaped, postStore, created, tasks,
          messageStore, conversationStore, typingUsers, userBookmarks>>
connVars == <<sockets, userSocketMap, rooms>>
dbVars == <<postStore, created>>
storeVars == <<postStore, created, tasks>>
msgVars == <<messageStore, conversationStore, typingUsers, userBookmarks>>

(***************************** bounds *************************************)
MaxConns == 2       \* connection attempts
MaxTasks == 2       \* handler invocations in flight at once
MaxVersion == 2     \* array writes applied to one post (its __v)
MaxCreated == 2     \* comments created by commentOnPost

(************************* strings and values *****************************)
IdLen == 24

HexDigits ==
  {"0","1","2","3","4","5","6","7","8","9",
   "a","b","c","d","e","f","A","B","C","D","E","F"}

Pad(ch, n) == [i \in 1..n |-> ch]

\* /^[0-9a-fA-F]{24}$/.test(s)
IsObjectIdString(s) ==
  /\ Len(s) = IdLen
  /\ \A i \in 1..Len(s) : s[i] \in HexDigits

\* String.prototype.startsWith
StartsWith(s, p) ==
  /\ Len(s) >= Len(p)
  /\ \A i \in 1..Len(p) : s[i] = p[i]

Undefined == [t |-> "undefined"]
Str(s) == [t |-> "string", v |-> s]
Num(n) == [t |-> "number", v |-> n]

\* !x for the values a client can send
Falsy(x) ==
  \/ x.t = "undefined"
  \/ x.t = "string" /\ Len(x.v) = 0
  \/ x.t = "number" /\ x.v = 0

\* the user ids of the store (24 hexadecimal characters each)
U1 == Pad("a", IdLen)
U2 == Pad("b", IdLen)
Users == {U1, U2}

\* post ids, and strings that are not post ids
P1 == Pad("1", IdLen)
P2 == Pad("2", IdLen)
PostIds == {P1, P2}

PostPrefix == <<"p","o","s","t",":">>

\* `post:${postId}`
PostRoom(postId) == PostPrefix \o postId

Conns == 1..MaxConns
NoSocket == 0

(************************* admission gate *********************************)
\* A bearer credential: signed with the server's secret or not, expired or
\* not, carrying the identity it was issued for.
Jwt(sig, expired, userId) ==
  [t |-> "jwt", sig |-> sig, expired |-> expired, userId |-> userId]

\* jwt.verify(token, secret): the decoded payload, or a throw
JwtVerify(token) ==
  IF token.t = "jwt" /\ token.sig = "good" /\ ~token.expired
    THEN [ok |-> TRUE, userId |-> token.userId]
    ELSE [ok |-> FALSE]

\* the handshakes a client may present
Tokens ==
  { Undefined, Str(<<>>), Str(<<"x">>),
    Jwt("good", FALSE, U1), Jwt("good", FALSE, U2),
    Jwt("good", TRUE, U1), Jwt("bad", FALSE, U1) }

ClaimedIds ==
  { Undefined, Str(<<>>), Str(U1), Str(U2),
    Str(Pad("A", IdLen)),            \* hexadecimal, but another string than U1
    Str(Pad("a", IdLen - 1)),        \* too short
    Str(Pad("a", IdLen + 1)),        \* too long
    Str(Pad("g", IdLen)) }           \* not hexadecimal

Handshakes == [token : Tokens, userId : ClaimedIds]

\* io.use without the comparison of line 47
AdmitNoIdentityCheck(hs) ==
  IF Falsy(hs.token) \/ Falsy(hs.userId) THEN [ok |-> FALSE, err |-> "missing"]
  ELSE IF ~IsObjectIdString(hs.userId.v) THEN [ok |-> FALSE, err |-> "format"]
  ELSE IF ~JwtVerify(hs.token).ok THEN [ok |-> FALSE, err |-> "verify"]
  ELSE [ok |-> TRUE, userId |-> hs.userId.v]

\* io.use: next() with the identity bound, or next(error)
Admit(hs) ==
  IF Falsy(hs.token) \/ Falsy(hs.userId) THEN [ok |-> FALSE, err |-> "missing"]
  ELSE IF ~IsObjectIdString(hs.userId.v) THEN [ok |-> FALSE, err |-> "format"]
  ELSE IF ~JwtVerify(hs.token).ok THEN [ok |-> FALSE, err |-> "verify"]
  ELSE IF JwtVerify(hs.token).userId # hs.userId.v
    THEN [ok |-> FALSE, err |-> "mismatch"]
  ELSE [ok |-> TRUE, userId |-> hs.userId.v]

(************************* emission ***************************************)
ToAll == [kind |-> "all"]
ToRoom(r) == [kind |-> "room", room |-> r]
ToSocket(c) == [kind |-> "socket", id |-> c]

OpenSockets == {c \in Conns : sockets[c].st = "open"}

\* io.emit / io.to(room) / io.to(socketId) / socket.emit: who is delivered to
Recipients(to) ==
  CASE to.kind = "all" -> OpenSockets
    [] to.kind = "room" -> {c \in OpenSockets : to.room \in rooms[c]}
    [] to.kind = "socket" -> {c \in OpenSockets : c = to.id}

Emit(ev, to, payload) ==
  [ev |-> ev, to |-> to, payload |-> payload, rcpt |-> Recipients(to)]

\* every user, whatever the map holds
KeysOfAll(map) == Users

\* Object.keys(map)
Keys(map) == {u \in Users : map[u] # NoSocket}

(************************* the document store *****************************)
CID1 == Pad("c", IdLen)
CID2 == Pad("d", IdLen)
CommentIds == {CID1, CID2}

Null == [t |-> "null"]
NoPost == Null

\* the User collection; only display fields are read here
UserDoc(u) ==
  [_id |-> u,
   username |-> IF u = U1 THEN "alice" ELSE "bob",
   profilePic |-> IF u = U1 THEN "alice.png" ELSE "bob.png"]

\* a post of the collection at server start: U1's post with U2's comment
InitialPost ==
  [_id |-> P1, postedBy |-> U1, isBanned |-> FALSE, likes |-> <<>>, bookmarks |-> <<>>,
   comments |-> << [_id |-> CID1, userId |-> U2, text |-> "t0",
                    likes |-> <<>>, isEdited |-> FALSE] >>,
   v |-> 0]

\* .populate("postedBy", ...).populate("comments.userId", ...)
Populate(doc) ==
  IF doc = Null THEN Null
  ELSE [doc EXCEPT
          !.postedBy = UserDoc(@),
          !.comments = [i \in DOMAIN @ |-> [@[i] EXCEPT !.userId = UserDoc(@)]]]

\* a value Mongoose casts to an ObjectId
CastsToObjectId(x) == x.t = "string" /\ IsObjectIdString(x.v)

\* Post.findById(id), id a castable string
FindById(id) == IF id \in PostIds THEN postStore[id] ELSE Null

\* the positions of comment cid in doc.comments
CommentIndex(doc, cid) == {i \in DOMAIN doc.comments : doc.comments[i]._id = cid}

\* Post.findOne({_id, "comments._id": cid}, {"comments.$": 1}).populate(...)
FindComment(id, cid) ==
  LET doc == FindById(id) IN
  IF doc = Null \/ CommentIndex(doc, cid) = {} THEN Null
  ELSE LET i == CHOOSE i \in CommentIndex(doc, cid) :
                  \A j \in CommentIndex(doc, cid) : i <= j
       IN [_id |-> doc._id,
           comments |-> << [doc.comments[i] EXCEPT !.userId = UserDoc(@)] >>]

\* the Message and Conversation collections at server start: one
\* conversation of U1 and U2 with one unseen message sent by U1
M1 == Pad("3", IdLen)
M2 == Pad("4", IdLen)
MessageIds == {M1, M2}
K1 == Pad("5", IdLen)
K2 == Pad("6", IdLen)
ConversationIds == {K1, K2}

InitialMessage ==
  [_id |-> M1, conversationId |-> K1, sender |-> U1, status |-> "sent", seen |-> FALSE]

InitialConversation ==
  [_id |-> K1, participants |-> <<U1, U2>>, lastMessage |-> [seen |-> FALSE]]

Slots == 1..MaxTasks
Idle == [kind |-> "idle"]

(************************* connection registry ****************************)
Init ==
  /\ sockets = [c \in Conns |-> [st |-> "free"]]
  /\ userSocketMap = [u \in Users |-> NoSocket]
  /\ rooms = [c \in Conns |-> {}]
  /\ out = <<>>
  /\ escaped = "none"
  /\ postStore = [p \in PostIds |-> IF p = P1 THEN InitialPost ELSE NoPost]
  /\ created = 0
  /\ tasks = [t \in Slots |-> Idle]
  /\ messageStore = [m \in MessageIds |-> IF m = M1 THEN InitialMessage ELSE Null]
  /\ conversationStore =
       [k \in ConversationIds |-> IF k = K1 THEN InitialConversation ELSE Null]
  /\ typingUsers = {}
  /\ userBookmarks = [u \in Users |-> <<>>]

\* socket ids are fresh: the next unused one
NextFree(c) == sockets[c].st = "free" /\ \A d \in 1..(c - 1) : sockets[d].st # "free"

\* a registration that keeps the entry a user already has
RegisterIfAbsent(c, userId) ==
  LET map == IF userSocketMap[userId] = NoSocket
               THEN [userSocketMap EXCEPT ![userId] = c] ELSE userSocketMap
      socks == [sockets EXCEPT ![c] = [st |-> "open", userId |-> userId]]
  IN /\ sockets' = socks
     /\ userSocketMap' = map
     /\ out' = << [ev |-> "getOnlineUsers", to |-> ToAll, payload |-> Keys(map),
                   rcpt |-> {d \in Conns : socks[d].st = "open"}] >>

\* io.on("connection"), for a socket the middleware let through
Register(c, userId) ==
  LET map == [userSocketMap EXCEPT ![userId] = c]
      socks == [sockets EXCEPT ![c] = [st |-> "open", userId |-> userId]]
  IN /\ sockets' = socks
     /\ userSocketMap' = map
     /\ out' = << [ev |-> "getOnlineUsers", to |-> ToAll, payload |-> Keys(map),
                   rcpt |-> {d \in Conns : socks[d].st = "open"}] >>

\* a connection attempt: io.use, then the connection handler
Connect(c, hs) ==
  /\ escaped = "none"
  /\ NextFree(c)
  /\ IF Admit(hs).ok
       THEN Register(c, Admit(hs).userId)
       ELSE /\ sockets' = [sockets EXCEPT ![c] = [st |-> "refused", err |-> Admit(hs).err]]
            /\ out' = <<>>
            /\ UNCHANGED userSocketMap
  /\ UNCHANGED <<rooms, escaped, storeVars, msgVars>>

\* a disconnect that leaves the registry as it is
DisconnectKeepsEntry(c) ==
  /\ escaped = "none"
  /\ sockets[c].st = "open"
  /\ sockets' = [sockets EXCEPT ![c] = [st |-> "closed"]]
  /\ out' = << [ev |-> "getOnlineUsers", to |-> ToAll, payload |-> Keys(userSocketMap),
                rcpt |-> {d \in Conns : d # c /\ sockets[d].st = "open"}] >>
  /\ rooms' = [rooms EXCEPT ![c] = {}]
  /\ UNCHANGED <<userSocketMap, escaped, storeVars, msgVars>>

\* a disconnect that also drops the typing keys of the connection's user
DisconnectDropsTyping(c) ==
  /\ escaped = "none"
  /\ sockets[c].st = "open"
  /\ LET map == [userSocketMap EXCEPT ![sockets[c].userId] = NoSocket]
         socks == [sockets EXCEPT ![c] = [st |-> "closed"]]
     IN /\ sockets' = socks
        /\ userSocketMap' = map
        /\ out' = << [ev |-> "getOnlineUsers", to |-> ToAll, payload |-> Keys(map),
                      rcpt |-> {d \in Conns : socks[d].st = "open"}] >>
  /\ rooms' = [rooms EXCEPT ![c] = {}]
  /\ typingUsers' = {k \in typingUsers : k[2] # sockets[c].userId}
  /\ UNCHANGED <<escaped, storeVars, messageStore, conversationStore, userBookmarks>>

\* socket.on("disconnect"); the transport has left every room
Disconnect(c) ==
  /\ escaped = "none"
  /\ sockets[c].st = "open"
  /\ LET map == [userSocketMap EXCEPT ![sockets[c].userId] = NoSocket]
         socks == [sockets EXCEPT ![c] = [st |-> "closed"]]
     IN /\ sockets' = socks
        /\ userSocketMap' = map
        /\ out' = << [ev |-> "getOnlineUsers", to |-> ToAll, payload |-> Keys(map),
                      rcpt |-> {d \in Conns : socks[d].st = "open"}] >>
  /\ rooms' = [rooms EXCEPT ![c] = {}]
  /\ UNCHANGED <<escaped, storeVars, msgVars>>

\* getRecipientSocketId
getRecipientSocketId(recipientId) ==
  IF recipientId \in DOMAIN userSocketMap THEN userSocketMap[recipientId] ELSE NoSocket

(************************* room manager ***********************************)
\* what a client may send as the room of joinPostRoom / leavePostRoom
RoomArgs ==
  { Undefined, Num(0), Num(42), Str(<<>>),
    Str(<<"n","o","t","-","a","-","p","o","s","t","-","r","o","o","m">>),
    Str(PostPrefix),
    Str(PostPrefix \o <<"z","z">>),
    Str(PostRoom(P1)) }

\* room.startsWith is a function only on a string
HasStartsWith(room) == room.t = "string"

\* socket.on("joinPostRoom")
JoinPostRoom(c, room) ==
  /\ escaped = "none"
  /\ sockets[c].st = "open"
  /\ out' = <<>>
  /\ IF Falsy(room) THEN UNCHANGED <<rooms, escaped>>
     ELSE IF ~HasStartsWith(room)
       THEN escaped' = "uncaughtException" /\ UNCHANGED rooms
     ELSE IF ~StartsWith(room.v, PostPrefix) THEN UNCHANGED <<rooms, escaped>>
     ELSE rooms' = [rooms EXCEPT ![c] = @ \cup {room.v}] /\ UNCHANGED escaped
  /\ UNCHANGED <<sockets, userSocketMap, storeVars, msgVars>>

\* socket.on("leavePostRoom")
LeavePostRoom(c, room) ==
  /\ escaped = "none"
  /\ sockets[c].st = "open"
  /\ out' = <<>>
  /\ IF Falsy(room) THEN UNCHANGED <<rooms, escaped>>
     ELSE IF ~HasStartsWith(room)
       THEN escaped' = "uncaughtException" /\ UNCHANGED rooms
     ELSE IF ~StartsWith(room.v, PostPrefix) THEN UNCHANGED <<rooms, escaped>>
     ELSE rooms' = [rooms EXCEPT ![c] = @ \ {room.v}] /\ UNCHANGED escaped
  /\ UNCHANGED <<sockets, userSocketMap, storeVars, msgVars>>

(************************* handler invocations ****************************)
\* an invocation takes the first free slot
FreeSlot(t) == tasks[t] = Idle /\ \A s \in 1..(t - 1) : tasks[s] # Idle

Now == "Date.now()"

\* socket.emit("error", { message, timestamp })
ErrorTo(c, message) ==
  [ev |-> "error", to |-> ToSocket(c),
   payload |-> [message |-> message, timestamp |-> Now],
   rcpt |-> Recipients(ToSocket(c)), reads |-> {}]

\* io.emit in the place of io.to(`post:${postId}`).emit
RoomEmitToAll(ev, postId, payload, reads) ==
  [ev |-> ev, to |-> ToRoom(PostRoom(postId)), payload |-> payload,
   rcpt |-> Recipients(ToAll), reads |-> reads]

\* io.to(`post:${postId}`).emit(ev, payload), by an invocation that has read
\* the posts `reads` from the store
RoomEmit(ev, postId, payload, reads) ==
  [ev |-> ev, to |-> ToRoom(PostRoom(postId)), payload |-> payload,
   rcpt |-> Recipients(ToRoom(PostRoom(postId))), reads |-> reads]

\* io.emit(ev, payload)
AllEmit(ev, payload, reads) ==
  [ev |-> ev, to |-> ToAll, payload |-> payload,
   rcpt |-> Recipients(ToAll), reads |-> reads]

\* what clients send in the fields of an event payload
PostIdArgs == {Undefined, Str(<<"z","z">>), Str(P1)}
CommentIdArgs == {Undefined, Str(CID1)}
UserIdArgs == {Undefined, Str(U1)}
LikesArgs == {Undefined, [t |-> "array", v |-> <<U1, U2>>]}
CommentArgs ==
  {Undefined} \cup
  {[t |-> "object", _id |-> i, username |-> "mallory"] : i \in CommentIdArgs}

\* comment?._id
IdOfComment(comment) == IF comment.t = "object" THEN comment._id ELSE Undefined

Finish(t) == tasks' = [tasks EXCEPT ![t] = Idle]
Suspend(t, task) == tasks' = [tasks EXCEPT ![t] = task]

\* an async handler whose parameter is destructured, called with no payload:
\* the TypeError rejects the handler's promise, outside its try block
Rejected ==
  /\ escaped' = "unhandledRejection"
  /\ out' = <<>>
  /\ UNCHANGED <<connVars, storeVars, msgVars>>

\* the three socket handlers that look the comment up and then the post:
\* newComment, likeUnlikeComment, editComment.  First part: validation and
\* the comment lookup.
CommentEvent(ev, c, t, postId, commentId, needed, extra) ==
  /\ UNCHANGED <<connVars, dbVars, msgVars, escaped>>
  /\ IF \E x \in needed : Falsy(x)
       THEN out' = << ErrorTo(c, "Invalid post or comment ID") >> /\ UNCHANGED tasks
     ELSE IF ~CastsToObjectId(postId) \/ ~CastsToObjectId(commentId)
       THEN out' = << ErrorTo(c, "Failed to broadcast") >> /\ UNCHANGED tasks
     ELSE /\ out' = <<>>
          /\ Suspend(t, [kind |-> ev, pc |-> "comment", socket |-> c,
                         postId |-> postId.v, commentId |-> commentId.v,
                         extra |-> extra, reads |-> {postId.v},
                         populatedComment |-> FindComment(postId.v, commentId.v)])

NewCommentPayloads == {Undefined} \cup [postId : PostIdArgs, comment : CommentArgs]

\* socket.on("newComment")
OnNewComment(c, t, p) ==
  /\ escaped = "none" /\ sockets[c].st = "open" /\ FreeSlot(t)
  /\ IF p = Undefined THEN Rejected
     ELSE CommentEvent("newComment", c, t, p.postId, IdOfComment(p.comment),
                       {p.postId, IdOfComment(p.comment)}, [t |-> "none"])

LikeUnlikeCommentPayloads ==
  {Undefined} \cup
  [postId : PostIdArgs, commentId : CommentIdArgs, userId : UserIdArgs, likes : LikesArgs]

\* socket.on("likeUnlikeComment")
OnLikeUnlikeComment(c, t, p) ==
  /\ escaped = "none" /\ sockets[c].st = "open" /\ FreeSlot(t)
  /\ IF p = Undefined THEN Rejected
     ELSE CommentEvent("likeUnlikeComment", c, t, p.postId, p.commentId,
                       {p.postId, p.commentId, p.userId},
                       [userId |-> p.userId, likes |-> p.likes])

EditCommentPayloads ==
  {Undefined} \cup
  [postId : PostIdArgs, commentId : CommentIdArgs, comment : CommentArgs]

\* socket.on("editComment")
OnEditComment(c, t, p) ==
  /\ escaped = "none" /\ sockets[c].st = "open" /\ FreeSlot(t)
  /\ IF p = Undefined THEN Rejected
     ELSE CommentEvent("editComment", c, t, p.postId, p.commentId,
                       {p.postId, p.commentId, IdOfComment(p.comment)}, [t |-> "none"])

SocketCommentKinds == {"newComment", "likeUnlikeComment", "editComment"}

\* second part: the comment lookup has returned; "Comment not found", or the
\* post is fetched
OnCommentLookedUp(t) ==
  /\ escaped = "none"
  /\ tasks[t].kind \in SocketCommentKinds /\ tasks[t].pc = "comment"
  /\ IF tasks[t].populatedComment = Null
       THEN out' = << ErrorTo(tasks[t].socket, "Comment not found") >> /\ Finish(t)
       ELSE /\ out' = <<>>
            /\ Suspend(t, [tasks[t] EXCEPT !.pc = "post"] @@
                          [populatedPost |-> Populate(FindById(tasks[t].postId))])
  /\ UNCHANGED <<connVars, dbVars, msgVars, escaped>>

\* the payload each of the three builds
CommentEventPayload(task) ==
  LET base == [postId |-> task.postId,
               comment |-> task.populatedComment.comments[1],
               post |-> task.populatedPost, timestamp |-> Now]
  IN CASE task.kind = "newComment" -> base
       [] task.kind = "editComment" -> base @@ [commentId |-> task.commentId]
       [] task.kind = "likeUnlikeComment" ->
            base @@ [commentId |-> task.commentId, userId |-> task.extra.userId,
                     likes |-> task.extra.likes]

\* third part: the post fetch has returned; the broadcast
OnCommentEventEmit(t) ==
  /\ escaped = "none"
  /\ tasks[t].kind \in SocketCommentKinds /\ tasks[t].pc = "post"
  /\ out' = << RoomEmit(tasks[t].kind, tasks[t].postId,
                        CommentEventPayload(tasks[t]), tasks[t].reads) >>
  /\ Finish(t)
  /\ UNCHANGED <<connVars, dbVars, msgVars, escaped>>

LikeUnlikePostPayloads ==
  {Undefined} \cup [postId : PostIdArgs, userId : UserIdArgs, likes : LikesArgs]

\* socket.on("likeUnlikePost"), to the fetch of the post
OnLikeUnlikePost(c, t, p) ==
  /\ escaped = "none" /\ sockets[c].st = "open" /\ FreeSlot(t)
  /\ IF p = Undefined THEN Rejected
     ELSE /\ UNCHANGED <<connVars, dbVars, msgVars, escaped>>
          /\ IF Falsy(p.postId) \/ Falsy(p.userId)
               THEN out' = << ErrorTo(c, "Invalid post or user ID") >> /\ UNCHANGED tasks
             ELSE IF ~CastsToObjectId(p.postId)
               THEN out' = << ErrorTo(c, "Failed to broadcast") >> /\ UNCHANGED tasks
             ELSE /\ out' = <<>>
                  /\ Suspend(t, [kind |-> "likeUnlikePost", pc |-> "post", socket |-> c,
                                 postId |-> p.postId.v, userId |-> p.userId,
                                 likes |-> p.likes, reads |-> {p.postId.v},
                                 populatedPost |-> Populate(FindById(p.postId.v))])

\* the likeUnlikePost broadcast of socket.js:174-181
LikeUnlikePostPayload(populatedPost, postId, userId, likes) ==
  [postId |-> postId, userId |-> userId, likes |-> likes, post |-> populatedPost,
   reactionType |-> "thumbs-up", timestamp |-> Now]

\* socket.on("likeUnlikePost"), from the fetch on
OnLikeUnlikePostEmit(t) ==
  /\ escaped = "none"
  /\ tasks[t].kind = "likeUnlikePost" /\ tasks[t].pc = "post"
  /\ IF tasks[t].populatedPost = Null
       THEN out' = << ErrorTo(tasks[t].socket, "Post not found") >>
       ELSE out' = << RoomEmit("likeUnlikePost", tasks[t].postId,
                        LikeUnlikePostPayload(tasks[t].populatedPost, tasks[t].postId,
                                              tasks[t].userId, tasks[t].likes),
                        tasks[t].reads) >>
  /\ Finish(t)
  /\ UNCHANGED <<connVars, dbVars, msgVars, escaped>>

DeleteCommentPayloads == {Undefined} \cup [postId : PostIdArgs, commentId : CommentIdArgs]

\* socket.on("deleteComment"), to the fetch of the post
OnDeleteComment(c, t, p) ==
  /\ escaped = "none" /\ sockets[c].st = "open" /\ FreeSlot(t)
  /\ IF p = Undefined THEN Rejected
     ELSE /\ UNCHANGED <<connVars, dbVars, msgVars, escaped>>
          /\ IF Falsy(p.postId) \/ Falsy(p.commentId)
               THEN out' = << ErrorTo(c, "Invalid post or comment ID") >> /\ UNCHANGED tasks
             ELSE IF ~CastsToObjectId(p.postId)
               THEN out' = << ErrorTo(c, "Failed to broadcast") >> /\ UNCHANGED tasks
             ELSE /\ out' = <<>>
                  /\ Suspend(t, [kind |-> "deleteComment", pc |-> "post", socket |-> c,
                                 postId |-> p.postId.v, commentId |-> p.commentId.v,
                                 reads |-> {p.postId.v},
                                 populatedPost |-> Populate(FindById(p.postId.v))])

\* socket.on("deleteComment"), from the fetch on
OnDeleteCommentEmit(t) ==
  /\ escaped = "none"
  /\ tasks[t].kind = "deleteComment" /\ tasks[t].pc = "post"
  /\ out' = << RoomEmit("deleteComment", tasks[t].postId,
                 [postId |-> tasks[t].postId, commentId |-> tasks[t].commentId,
                  post |-> tasks[t].populatedPost, timestamp |-> Now],
                 tasks[t].reads) >>
  /\ Finish(t)
  /\ UNCHANGED <<connVars, dbVars, msgVars, escaped>>

PostDeletedPayloads == {Undefined} \cup [postId : PostIdArgs, userId : UserIdArgs]

\* socket.on("postDeleted"): no await, one step
OnPostDeleted(c, p) ==
  /\ escaped = "none" /\ sockets[c].st = "open"
  /\ IF p = Undefined THEN Rejected
     ELSE /\ UNCHANGED <<connVars, storeVars, msgVars, escaped>>
          /\ IF Falsy(p.postId) \/ Falsy(p.userId)
               THEN out' = << ErrorTo(c, "Invalid post or user ID") >>
               ELSE out' = << RoomEmit("postDeleted", p.postId.v,
                                [postId |-> p.postId.v, userId |-> p.userId,
                                 timestamp |-> Now], {}),
                              AllEmit("postDeletedFromFeed",
                                [postId |-> p.postId.v, timestamp |-> Now], {}) >>

(************************* HTTP handlers **********************************)
\* the accounts protectRoute resolves req.user to; U3 is the administrator
U3 == Pad("e", IdLen)
Accounts == Users \cup {U3}
IsAdmin(u) == u = U3

\* deletePost, to the first fetch
deletePost(t, user, id) ==
  /\ escaped = "none" /\ FreeSlot(t)
  /\ out' = <<>>
  /\ Suspend(t, [kind |-> "http:deletePost", pc |-> "found", user |-> user,
                 postId |-> id, reads |-> {id}, post |-> FindById(id)])
  /\ UNCHANGED <<connVars, dbVars, msgVars, escaped>>

\* deletePost: 404, 403, or Post.findByIdAndDelete
deletePostDelete(t) ==
  /\ escaped = "none"
  /\ tasks[t].kind = "http:deletePost" /\ tasks[t].pc = "found"
  /\ out' = <<>>
  /\ IF tasks[t].post = Null
       THEN Finish(t) /\ UNCHANGED postStore
     ELSE IF tasks[t].post.postedBy # tasks[t].user /\ ~IsAdmin(tasks[t].user)
       THEN Finish(t) /\ UNCHANGED postStore
     ELSE /\ postStore' = [postStore EXCEPT ![tasks[t].postId] = NoPost]
          /\ Suspend(t, [tasks[t] EXCEPT !.pc = "deleted"])
  /\ UNCHANGED <<connVars, created, msgVars, escaped>>

\* deletePost: the postDeleted broadcast
deletePostEmit(t) ==
  /\ escaped = "none"
  /\ tasks[t].kind = "http:deletePost" /\ tasks[t].pc = "deleted"
  /\ out' = << RoomEmit("postDeleted", tasks[t].postId,
                 [postId |-> tasks[t].postId, userId |-> tasks[t].post.postedBy],
                 tasks[t].reads) >>
  /\ Finish(t)
  /\ UNCHANGED <<connVars, dbVars, msgVars, escaped>>

(************************* HTTP handlers: writes ***************************)
\* The update post.save() sends is the delta of the in-memory document.
\* Mongoose adds the version read (__v) to the filter of an update that sets
\* an array or a field of an array element by position, and increments __v
\* in an update that may move array elements.  An update that matches no
\* document (the post is gone, or its version has moved) makes save() throw.
SaveThrows(id, v, where) ==
  IF postStore[id] = NoPost THEN TRUE ELSE where /\ postStore[id].v # v

Inc(doc) == [doc EXCEPT !.v = @ + 1]

\* array.pull(x), on an array of ids
Pull(seq, x) == SelectSeq(seq, LAMBDA e : e # x)

\* comments.pull({ _id })
PullComment(comments, cid) == SelectSeq(comments, LAMBDA cm : cm._id # cid)

\* a membership test that never finds the element
IncludesNever(seq, x) == FALSE

\* array.includes(x)
Includes(seq, x) == \E i \in DOMAIN seq : seq[i] = x

\* comments.id(commentId): the position of the comment, 0 if there is none
CommentPos(doc, cid) ==
  IF CommentIndex(doc, cid) = {} THEN 0
  ELSE CHOOSE i \in CommentIndex(doc, cid) : \A j \in CommentIndex(doc, cid) : i <= j

\* the first fetch of every handler below: Post.findById(postId)
HttpStart(t, kind, user, postId, args) ==
  /\ escaped = "none" /\ FreeSlot(t)
  /\ out' = <<>>
  /\ Suspend(t, [kind |-> kind, pc |-> "found", user |-> user, postId |-> postId,
                 args |-> args, reads |-> {postId}, post |-> FindById(postId)])
  /\ UNCHANGED <<connVars, dbVars, msgVars, escaped>>

\* the response without a broadcast: 4xx, or 500 from the catch block
Respond(t) == Finish(t) /\ UNCHANGED dbVars

\* a save that went through: the in-memory pieces the handler uses later
Saved(t, mem) ==
  Suspend(t, [kind |-> tasks[t].kind, pc |-> "saved", user |-> tasks[t].user,
              postId |-> tasks[t].postId, args |-> tasks[t].args,
              reads |-> tasks[t].reads, mem |-> mem])

AtSave(t, kind) ==
  /\ escaped = "none"
  /\ tasks[t].kind = kind /\ tasks[t].pc = "found"
  /\ out' = <<>>
  /\ UNCHANGED <<connVars, msgVars, escaped>>

\* the version an incrementing save may still reach
CanInc(id) == IF postStore[id] = NoPost THEN TRUE ELSE postStore[id].v < MaxVersion

likeUnlikePost(t, user, postId) ==
  HttpStart(t, "http:likeUnlikePost", user, postId, [t |-> "none"])

\* likeUnlikePost: the toggle and post.save()
likeUnlikePostSave(t) ==
  LET task == tasks[t]  post == task.post  id == task.postId IN
  /\ AtSave(t, "http:likeUnlikePost")
  /\ CanInc(id)
  /\ IF post = Null \/ post.isBanned THEN Respond(t)
     ELSE IF Includes(post.likes, task.user)
       THEN IF SaveThrows(id, post.v, FALSE) THEN Respond(t)
            ELSE /\ postStore' = [postStore EXCEPT ![id] =
                                    Inc([@ EXCEPT !.likes = Pull(@, task.user)])]
                 /\ Saved(t, Null) /\ UNCHANGED created
       ELSE IF SaveThrows(id, post.v, TRUE) THEN Respond(t)
            ELSE /\ postStore' = [postStore EXCEPT ![id] =
                                    Inc([@ EXCEPT !.likes = Append(post.likes, task.user)])]
                 /\ Saved(t, Null) /\ UNCHANGED created

commentOnPost(t, user, postId, text) ==
  /\ text # ""
  /\ HttpStart(t, "http:commentOnPost", user, postId, [text |-> text])

NewCommentIds == << Pad("d", IdLen), Pad("f", IdLen), Pad("7", IdLen), Pad("8", IdLen) >>

\* commentOnPost: the user lookup, comments.push and post.save()
commentOnPostSave(t) ==
  LET task == tasks[t]  post == task.post  id == task.postId
      comment == [_id |-> NewCommentIds[created + 1], userId |-> task.user,
                  text |-> task.args.text, likes |-> <<>>, isEdited |-> FALSE]
  IN
  /\ AtSave(t, "http:commentOnPost")
  /\ CanInc(id) /\ created < MaxCreated
  /\ IF post = Null \/ post.isBanned THEN Respond(t)
     ELSE IF SaveThrows(id, post.v, FALSE) THEN Respond(t)
     ELSE /\ postStore' = [postStore EXCEPT ![id] =
                             Inc([@ EXCEPT !.comments = Append(@, comment)])]
          /\ created' = created + 1
          /\ Saved(t, Null)

editComment(t, user, postId, commentId, text) ==
  HttpStart(t, "http:editComment", user, postId, [commentId |-> commentId, text |-> text])

\* editComment: the checks, the edit of the comment and post.save()
editCommentSave(t) ==
  LET task == tasks[t]  post == task.post  id == task.postId
      i == CommentPos(post, task.args.commentId)
      comment == [post.comments[i] EXCEPT !.text = task.args.text, !.isEdited = TRUE]
  IN
  /\ AtSave(t, "http:editComment")
  /\ IF post = Null THEN Respond(t)
     ELSE IF i = 0 THEN Respond(t)
     ELSE IF post.comments[i].userId # task.user /\ ~IsAdmin(task.user) THEN Respond(t)
     ELSE IF task.args.text = "" THEN Respond(t)
     ELSE IF SaveThrows(id, post.v, TRUE) THEN Respond(t)
     ELSE /\ postStore' = [postStore EXCEPT ![id].comments[i] = comment]
          /\ Saved(t, comment) /\ UNCHANGED created

deleteComment(t, user, postId, commentId) ==
  HttpStart(t, "http:deleteComment", user, postId, [commentId |-> commentId])

\* deleteComment: the checks, comments.pull and post.save()
deleteCommentSave(t) ==
  LET task == tasks[t]  post == task.post  id == task.postId
      i == CommentPos(post, task.args.commentId)
  IN
  /\ AtSave(t, "http:deleteComment")
  /\ CanInc(id)
  /\ IF post = Null \/ post.isBanned THEN Respond(t)
     ELSE IF i = 0 THEN Respond(t)
     ELSE IF /\ post.comments[i].userId # task.user
             /\ task.user # post.postedBy
             /\ ~IsAdmin(task.user) THEN Respond(t)
     ELSE IF SaveThrows(id, post.v, FALSE) THEN Respond(t)
     ELSE /\ postStore' = [postStore EXCEPT ![id] =
                             Inc([@ EXCEPT !.comments = PullComment(@, task.args.commentId)])]
          /\ Saved(t, Null) /\ UNCHANGED created

likeUnlikeComment(t, user, postId, commentId) ==
  HttpStart(t, "http:likeUnlikeComment", user, postId, [commentId |-> commentId])

\* likeUnlikeComment: the toggle on the comment and post.save()
likeUnlikeCommentSave(t) ==
  LET task == tasks[t]  post == task.post  id == task.postId
      i == CommentPos(post, task.args.commentId)
      likes == IF Includes(post.comments[i].likes, task.user)
                 THEN Pull(post.comments[i].likes, task.user)
                 ELSE Append(post.comments[i].likes, task.user)
  IN
  /\ AtSave(t, "http:likeUnlikeComment")
  /\ CanInc(id)
  /\ IF post = Null \/ post.isBanned THEN Respond(t)
     ELSE IF i = 0 THEN Respond(t)
     ELSE IF SaveThrows(id, post.v, TRUE) THEN Respond(t)
     ELSE /\ postStore' = [postStore EXCEPT ![id] =
                             Inc([@ EXCEPT !.comments[i].likes = likes])]
          /\ Saved(t, likes) /\ UNCHANGED created

\* a ban request that is served whoever sends it
banPostByAnyone(t, user, id) == HttpStart(t, "http:banPost", user, id, [t |-> "none"])

\* banPost and unbanPost, to the first fetch; 403 unless req.user.isAdmin
banPost(t, user, id) ==
  /\ IsAdmin(user)
  /\ HttpStart(t, "http:banPost", user, id, [t |-> "none"])

unbanPost(t, user, id) ==
  /\ IsAdmin(user)
  /\ HttpStart(t, "http:unbanPost", user, id, [t |-> "none"])

\* banPost / unbanPost: isBanned is set and saved
banPostSave(t) ==
  LET task == tasks[t]  id == task.postId IN
  /\ AtSave(t, "http:banPost")
  /\ IF task.post = Null THEN Respond(t)
     ELSE IF SaveThrows(id, task.post.v, FALSE) THEN Respond(t)
     ELSE /\ postStore' = [postStore EXCEPT ![id].isBanned = TRUE]
          /\ Saved(t, Null) /\ UNCHANGED created

unbanPostSave(t) ==
  LET task == tasks[t]  id == task.postId IN
  /\ AtSave(t, "http:unbanPost")
  /\ IF task.post = Null THEN Respond(t)
     ELSE IF SaveThrows(id, task.post.v, FALSE) THEN Respond(t)
     ELSE /\ postStore' = [postStore EXCEPT ![id].isBanned = FALSE]
          /\ Saved(t, Null) /\ UNCHANGED created

HttpWriteKinds ==
  {"http:likeUnlikePost", "http:commentOnPost", "http:editComment",
   "http:deleteComment", "http:likeUnlikeComment", "http:banPost", "http:unbanPost"}

\* after the save, in each of them:
\* Post.findById(postId).populate("postedBy", ...).populate("comments.userId", ...)
HttpRefetch(t) ==
  /\ escaped = "none"
  /\ tasks[t].kind \in HttpWriteKinds /\ tasks[t].pc = "saved"
  /\ out' = <<>>
  /\ Suspend(t, [tasks[t] EXCEPT !.pc = "refetched"] @@
                [populatedPost |-> Populate(FindById(tasks[t].postId))])
  /\ UNCHANGED <<connVars, dbVars, msgVars, escaped>>

\* populatedPost.comments[populatedPost.comments.length - 1]
LastComment(populatedPost) ==
  IF Len(populatedPost.comments) = 0 THEN Undefined
  ELSE populatedPost.comments[Len(populatedPost.comments)]

\* the broadcast each handler builds from the re-fetched post; <<>> where the
\* handler throws on a null post before it emits
HttpBroadcast(task) ==
  LET post == task.populatedPost  id == task.postId  k == task.kind IN
  CASE k = "http:likeUnlikePost" ->
         IF post = Null THEN <<>>
         ELSE << RoomEmit("likeUnlikePost", id,
                   [postId |-> id, userId |-> task.user, likes |-> post.likes,
                    post |-> post, reactionType |-> "thumbs-up", timestamp |-> Now],
                   task.reads) >>
    [] k = "http:commentOnPost" ->
         IF post = Null THEN <<>>
         ELSE << RoomEmit("newComment", id,
                   [postId |-> id, comment |-> LastComment(post), post |-> post,
                    timestamp |-> Now], task.reads) >>
    [] k = "http:editComment" ->
         << RoomEmit("editComment", id,
              [postId |-> id, commentId |-> task.args.commentId, comment |-> task.mem,
               post |-> post, timestamp |-> Now], task.reads) >>
    [] k = "http:deleteComment" ->
         << RoomEmit("deleteComment", id,
              [postId |-> id, commentId |-> task.args.commentId, post |-> post,
               timestamp |-> Now], task.reads) >>
    [] k = "http:likeUnlikeComment" ->
         << RoomEmit("likeUnlikeComment", id,
              [postId |-> id, commentId |-> task.args.commentId, userId |-> task.user,
               likes |-> task.mem, post |-> post, timestamp |-> Now], task.reads) >>
    [] k = "http:banPost" ->
         IF post = Null THEN <<>>
         ELSE << RoomEmit("postBanned", id, [postId |-> id, post |-> post], task.reads) >>
    [] k = "http:unbanPost" ->
         IF post = Null THEN <<>>
         ELSE << RoomEmit("postUnbanned", id, [postId |-> id, post |-> post], task.reads) >>

\* the re-fetch has returned: req.io.to(`post:${postId}`).emit(...), the response
HttpEmit(t) ==
  /\ escaped = "none"
  /\ tasks[t].kind \in HttpWriteKinds /\ tasks[t].pc = "refetched"
  /\ out' = HttpBroadcast(tasks[t])
  /\ Finish(t)
  /\ UNCHANGED <<connVars, dbVars, msgVars, escaped>>

(************************* new posts **************************************)
\* user.following: the accounts the user follows (the feed query of
\* postController.js:883-885 reads it so); U2 follows U1
Following(u) == IF u = U2 THEN <<U1>> ELSE <<>>

\* the accounts that follow u
Followers(u) == {f \in Accounts : Includes(Following(f), u)}

\* User.findById(id)
FindUserById(id) ==
  IF id.t = "string" /\ id.v \in Accounts
    THEN [_id |-> id.v, following |-> Following(id.v), isBanned |-> FALSE]
    ELSE Null

\* .populate("postedBy", "username profilePic")
PopulateAuthor(doc) == IF doc = Null THEN Null ELSE [doc EXCEPT !.postedBy = UserDoc(@)]

\* io.emit in the place of io.to(socketId).emit
EmitToEveryone(ev, socketId, payload, reads) ==
  [ev |-> ev, to |-> ToAll, payload |-> payload,
   rcpt |-> Recipients(ToAll), reads |-> reads]

\* io.to(socketId).emit(ev, payload)
UnicastEmit(ev, socketId, payload, reads) ==
  [ev |-> ev, to |-> ToSocket(socketId), payload |-> payload,
   rcpt |-> Recipients(ToSocket(socketId)), reads |-> reads]

\* a delivery that is dropped whole when one id has no registry entry
UnicastsAllOrNone(ev, ids, payload, reads) ==
  IF \E i \in DOMAIN ids : getRecipientSocketId(ids[i]) = NoSocket THEN <<>>
  ELSE [i \in DOMAIN ids |-> UnicastEmit(ev, getRecipientSocketId(ids[i]), payload, reads)]

\* ids.forEach: one emit for each id the registry resolves
Unicasts(ev, ids, payload, reads) ==
  LET hit == SelectSeq(ids, LAMBDA u : getRecipientSocketId(u) # NoSocket)
  IN [i \in 1..Len(hit) |-> UnicastEmit(ev, getRecipientSocketId(hit[i]), payload, reads)]

NewPostPayloads ==
  {Undefined} \cup [_id : PostIdArgs, postedBy : {Undefined, Str(U1), Str(U2)}]

\* socket.on("newPost"), to the fetch of the post
OnNewPost(c, t, p) ==
  /\ escaped = "none" /\ sockets[c].st = "open" /\ FreeSlot(t)
  /\ UNCHANGED <<connVars, dbVars, msgVars, escaped>>
  /\ IF p = Undefined
       THEN out' = << ErrorTo(c, "Invalid post ID") >> /\ UNCHANGED tasks
     ELSE IF Falsy(p._id)
       THEN out' = << ErrorTo(c, "Invalid post ID") >> /\ UNCHANGED tasks
     ELSE IF ~CastsToObjectId(p._id)
       THEN out' = << ErrorTo(c, "Failed to broadcast") >> /\ UNCHANGED tasks
     ELSE /\ out' = <<>>
          /\ Suspend(t, [kind |-> "newPost", pc |-> "post", socket |-> c, post |-> p,
                         reads |-> {p._id.v},
                         populatedPost |-> PopulateAuthor(FindById(p._id.v))])

\* socket.on("newPost"): "Post not found", or the author's lookup by the
\* payload's postedBy
OnNewPostFound(t) ==
  /\ escaped = "none"
  /\ tasks[t].kind = "newPost" /\ tasks[t].pc = "post"
  /\ IF tasks[t].populatedPost = Null
       THEN out' = << ErrorTo(tasks[t].socket, "Post not found") >> /\ Finish(t)
       ELSE /\ out' = <<>>
            /\ Suspend(t, [tasks[t] EXCEPT !.pc = "user"] @@
                          [user |-> FindUserById(tasks[t].post.postedBy)])
  /\ UNCHANGED <<connVars, dbVars, msgVars, escaped>>

\* socket.on("newPost"): "User not found", or the unicasts and the feed notice
OnNewPostEmit(t) ==
  LET task == tasks[t] IN
  /\ escaped = "none"
  /\ task.kind = "newPost" /\ task.pc = "user"
  /\ IF task.user = Null
       THEN out' = << ErrorTo(task.socket, "User not found") >>
       ELSE out' = Unicasts("newPost", task.user.following \o << task.post.postedBy.v >>,
                            task.populatedPost, task.reads)
                   \o << AllEmit("newFeedPost", task.populatedPost, task.reads)
                         @@ [arg2 |-> [timestamp |-> Now]] >>
  /\ Finish(t)
  /\ UNCHANGED <<connVars, dbVars, msgVars, escaped>>

\* the identifier of the next created post
NewPostId == P2

\* createPost, to User.findById(postedBy); 400 without postedBy or text
createPost(t, user, postedBy, text) ==
  /\ text # ""
  /\ escaped = "none" /\ FreeSlot(t)
  /\ out' = <<>>
  /\ Suspend(t, [kind |-> "http:createPost", pc |-> "user", user |-> user,
                 text |-> text, found |-> FindUserById(Str(postedBy))])
  /\ UNCHANGED <<connVars, dbVars, msgVars, escaped>>

\* createPost: 404, 401, or new Post({ postedBy, text }).save()
createPostSave(t) ==
  LET task == tasks[t] IN
  /\ escaped = "none"
  /\ task.kind = "http:createPost" /\ task.pc = "user"
  /\ out' = <<>>
  /\ IF task.found = Null THEN Respond(t)
     ELSE IF task.found.isBanned THEN Respond(t)
     ELSE IF task.found._id # task.user THEN Respond(t)
     ELSE /\ postStore[NewPostId] = NoPost
          /\ postStore' = [postStore EXCEPT ![NewPostId] =
                             [_id |-> NewPostId, postedBy |-> task.found._id,
                              isBanned |-> FALSE, likes |-> <<>>, bookmarks |-> <<>>,
                              comments |-> <<>>,
                              v |-> 0]]
          /\ Suspend(t, [kind |-> task.kind, pc |-> "saved", found |-> task.found,
                         postId |-> NewPostId, reads |-> {NewPostId}])
          /\ UNCHANGED created
  /\ UNCHANGED <<connVars, msgVars, escaped>>

\* createPost: Post.findById(newPost._id).populate("postedBy", ...)
createPostRefetch(t) ==
  /\ escaped = "none"
  /\ tasks[t].kind = "http:createPost" /\ tasks[t].pc = "saved"
  /\ out' = <<>>
  /\ Suspend(t, [tasks[t] EXCEPT !.pc = "refetched"] @@
                [populatedPost |-> PopulateAuthor(FindById(tasks[t].postId))])
  /\ UNCHANGED <<connVars, dbVars, msgVars, escaped>>

\* createPost: the unicasts, the newFeedPost emit, the response
createPostEmit(t) ==
  LET task == tasks[t] IN
  /\ escaped = "none"
  /\ task.kind = "http:createPost" /\ task.pc = "refetched"
  /\ out' = Unicasts("newPost", task.found.following \o << task.found._id >>,
                     task.populatedPost, task.reads)
            \o << RoomEmit("newFeedPost", task.postId, task.populatedPost, task.reads) >>
  /\ Finish(t)
  /\ UNCHANGED <<connVars, dbVars, msgVars, escaped>>

(************************* direct messages ********************************)
\* what clients send in the fields of a message event
MessageIdArgs == {Undefined, Str(<<"z","z">>), Str(M1), Str(M2)}
ConversationIdArgs == {Undefined, Str(<<"z","z">>), Str(K1)}
PartyArgs == {Undefined, Str(U1), Str(U2)}
SenderArgs ==
  {Undefined} \cup {[_id |-> i, username |-> "mallory"] : i \in {Undefined, Str(U1)}}

\* message?.sender?._id
IdOfSender(sender) == IF sender = Undefined THEN Undefined ELSE sender._id

NewMessagePayloads ==
  {Undefined} \cup
  [recipientId : PartyArgs, sender : SenderArgs, conversationId : ConversationIdArgs]

\* socket.on("newMessage"): no await, one step
OnNewMessage(c, p) ==
  /\ escaped = "none" /\ sockets[c].st = "open"
  /\ UNCHANGED <<connVars, storeVars, msgVars, escaped>>
  /\ IF p = Undefined
       THEN out' = << ErrorTo(c, "Invalid message data") >>
     ELSE IF Falsy(p.recipientId) \/ Falsy(IdOfSender(p.sender)) \/ Falsy(p.conversationId)
       THEN out' = << ErrorTo(c, "Invalid message data") >>
     ELSE out' = Unicasts("newMessage", << p.recipientId.v, p.sender._id.v >>,
                          [timestamp |-> Now] @@ p, {})

\* Message.findById(id), id a castable string
FindMessageById(id) == IF id \in MessageIds THEN messageStore[id] ELSE Null

MessageDeliveredPayloads ==
  {Undefined} \cup
  [messageId : MessageIdArgs, conversationId : ConversationIdArgs, recipientId : PartyArgs]

\* socket.on("messageDelivered"), to Message.findByIdAndUpdate, which sets
\* status to "delivered" and returns the updated document
OnMessageDelivered(c, t, p) ==
  /\ escaped = "none" /\ sockets[c].st = "open" /\ FreeSlot(t)
  /\ IF p = Undefined THEN Rejected
     ELSE /\ UNCHANGED <<connVars, dbVars, conversationStore, typingUsers, escaped, userBookmarks>>
          /\ IF Falsy(p.messageId) \/ Falsy(p.conversationId) \/ Falsy(p.recipientId)
               THEN /\ out' = << ErrorTo(c, "Invalid message delivered data") >>
                    /\ UNCHANGED <<tasks, messageStore>>
             ELSE IF ~CastsToObjectId(p.messageId)
               THEN /\ out' = << ErrorTo(c, "Failed to broadcast") >>
                    /\ UNCHANGED <<tasks, messageStore>>
             ELSE LET id == p.messageId.v
                      updated == IF FindMessageById(id) = Null THEN Null
                                 ELSE [FindMessageById(id) EXCEPT !.status = "delivered"]
                  IN /\ out' = <<>>
                     /\ messageStore' = IF updated = Null THEN messageStore
                                        ELSE [messageStore EXCEPT ![id] = updated]
                     /\ Suspend(t, [kind |-> "messageDelivered", pc |-> "updated",
                                    socket |-> c, messageId |-> p.messageId,
                                    conversationId |-> p.conversationId,
                                    recipientId |-> p.recipientId.v,
                                    updatedMessage |-> updated])

\* socket.on("messageDelivered"): "Message not found", or the unicasts to the
\* stored sender and to the payload's recipient
OnMessageDeliveredEmit(t) ==
  LET task == tasks[t] IN
  /\ escaped = "none"
  /\ task.kind = "messageDelivered" /\ task.pc = "updated"
  /\ IF task.updatedMessage = Null
       THEN out' = << ErrorTo(task.socket, "Message not found") >>
       ELSE out' = Unicasts("messageDelivered",
                            << task.updatedMessage.sender, task.recipientId >>,
                            [messageId |-> task.messageId,
                             conversationId |-> task.conversationId, timestamp |-> Now],
                            {})
  /\ Finish(t)
  /\ UNCHANGED <<connVars, dbVars, msgVars, escaped>>

\* Conversation.findById(id), id a castable string
FindConversationById(id) ==
  IF id \in ConversationIds THEN conversationStore[id] ELSE Null

\* the filter { conversationId, seen: false, sender: { $ne: userId } }
UnseenFrom(conversationId, userId) ==
  {m \in MessageIds : /\ messageStore[m] # Null
                      /\ messageStore[m].conversationId = conversationId
                      /\ ~messageStore[m].seen
                      /\ messageStore[m].sender # userId}

\* the elements of a set of identifiers, as an array
RECURSIVE SeqOf(_)
SeqOf(S) ==
  IF S = {} THEN <<>>
  ELSE LET x == CHOOSE y \in S : TRUE
       IN << x >> \o SeqOf(S \ {x})

MarkMessagesAsSeenPayloads ==
  {Undefined} \cup [conversationId : ConversationIdArgs, userId : PartyArgs]

\* socket.on("markMessagesAsSeen"), to Conversation.findById
OnMarkMessagesAsSeen(c, t, p) ==
  /\ escaped = "none" /\ sockets[c].st = "open" /\ FreeSlot(t)
  /\ IF p = Undefined THEN Rejected
     ELSE /\ UNCHANGED <<connVars, dbVars, msgVars, escaped>>
          /\ IF Falsy(p.conversationId) \/ Falsy(p.userId)
               THEN out' = << ErrorTo(c, "Invalid mark messages data") >>
                    /\ UNCHANGED tasks
             ELSE IF ~CastsToObjectId(p.conversationId)
               THEN out' = << ErrorTo(c, "Failed to broadcast") >> /\ UNCHANGED tasks
             ELSE /\ out' = <<>>
                  /\ Suspend(t, [kind |-> "markMessagesAsSeen", pc |-> "conversation",
                                 socket |-> c, conversationId |-> p.conversationId.v,
                                 userId |-> p.userId,
                                 conversation |-> FindConversationById(p.conversationId.v)])

\* markMessagesAsSeen: "Conversation not found", or Message.find
OnMarkSeenFind(t) ==
  LET task == tasks[t] IN
  /\ escaped = "none"
  /\ task.kind = "markMessagesAsSeen" /\ task.pc = "conversation"
  /\ IF task.conversation = Null
       THEN out' = << ErrorTo(task.socket, "Conversation not found") >> /\ Finish(t)
     ELSE IF ~CastsToObjectId(task.userId)
       THEN out' = << ErrorTo(task.socket, "Failed to broadcast") >> /\ Finish(t)
     ELSE /\ out' = <<>>
          /\ Suspend(t, [task EXCEPT !.pc = "messages"] @@
                        [seenMessageIds |->
                           SeqOf(UnseenFrom(task.conversationId, task.userId.v))])
  /\ UNCHANGED <<connVars, dbVars, msgVars, escaped>>

\* markMessagesAsSeen: nothing to mark, or Message.updateMany
OnMarkSeenUpdate(t) ==
  LET task == tasks[t] IN
  /\ escaped = "none"
  /\ task.kind = "markMessagesAsSeen" /\ task.pc = "messages"
  /\ out' = <<>>
  /\ IF task.seenMessageIds = <<>>
       THEN Finish(t) /\ UNCHANGED messageStore
       ELSE /\ messageStore' =
                 [m \in MessageIds |->
                    IF m \in UnseenFrom(task.conversationId, task.userId.v)
                      THEN [messageStore[m] EXCEPT !.seen = TRUE, !.status = "seen"]
                      ELSE messageStore[m]]
            /\ Suspend(t, [task EXCEPT !.pc = "marked"])
  /\ UNCHANGED <<connVars, dbVars, conversationStore, typingUsers, escaped, userBookmarks>>

\* markMessagesAsSeen: Conversation.updateOne sets lastMessage.seen
OnMarkSeenConversation(t) ==
  LET task == tasks[t]  k == task.conversationId IN
  /\ escaped = "none"
  /\ task.kind = "markMessagesAsSeen" /\ task.pc = "marked"
  /\ out' = <<>>
  /\ conversationStore' =
       IF conversationStore[k] = Null THEN conversationStore
       ELSE [conversationStore EXCEPT ![k].lastMessage.seen = TRUE]
  /\ Suspend(t, [task EXCEPT !.pc = "updated"])
  /\ UNCHANGED <<connVars, dbVars, messageStore, typingUsers, escaped, userBookmarks>>

\* markMessagesAsSeen: messagesSeen to each participant the registry resolves
OnMarkSeenEmit(t) ==
  LET task == tasks[t] IN
  /\ escaped = "none"
  /\ task.kind = "markMessagesAsSeen" /\ task.pc = "updated"
  /\ out' = Unicasts("messagesSeen", task.conversation.participants,
                     [conversationId |-> task.conversationId,
                      seenMessages |-> task.seenMessageIds, timestamp |-> Now], {})
  /\ Finish(t)
  /\ UNCHANGED <<connVars, dbVars, msgVars, escaped>>

(************************* typing indicators ******************************)
TypingPayloads == {Undefined} \cup [conversationId : ConversationIdArgs, userId : PartyArgs]

\* `${conversationId}:${userId}`
TypingKey(p) == << p.conversationId.v, p.userId.v >>

\* a synchronous handler whose parameter is destructured, called with no
\* payload: the TypeError leaves the listener
Thrown ==
  /\ escaped' = "uncaughtException"
  /\ out' = <<>>
  /\ UNCHANGED <<connVars, storeVars, msgVars>>

\* socket.on("typing")
OnTyping(c, p) ==
  /\ escaped = "none" /\ sockets[c].st = "open"
  /\ IF p = Undefined THEN Thrown
     ELSE /\ UNCHANGED <<connVars, storeVars, messageStore, conversationStore, escaped, userBookmarks>>
          /\ IF Falsy(p.conversationId) \/ Falsy(p.userId)
               THEN out' = << ErrorTo(c, "Invalid typing data") >> /\ UNCHANGED typingUsers
               ELSE /\ typingUsers' = typingUsers \cup {TypingKey(p)}
                    /\ out' = Unicasts("typing", << p.userId.v >>,
                                       [conversationId |-> p.conversationId,
                                        userId |-> p.userId, timestamp |-> Now], {})

\* a stopTyping that empties the typing store
OnStopTypingClearsAll(c, p) ==
  /\ escaped = "none" /\ sockets[c].st = "open"
  /\ IF p = Undefined THEN Thrown
     ELSE /\ UNCHANGED <<connVars, storeVars, messageStore, conversationStore, escaped, userBookmarks>>
          /\ IF Falsy(p.conversationId) \/ Falsy(p.userId)
               THEN out' = << ErrorTo(c, "Invalid stop typing data") >>
                    /\ UNCHANGED typingUsers
               ELSE /\ typingUsers' = {}
                    /\ out' = Unicasts("stopTyping", << p.userId.v >>,
                                       [conversationId |-> p.conversationId,
                                        userId |-> p.userId, timestamp |-> Now], {})

\* socket.on("stopTyping")
OnStopTyping(c, p) ==
  /\ escaped = "none" /\ sockets[c].st = "open"
  /\ IF p = Undefined THEN Thrown
     ELSE /\ UNCHANGED <<connVars, storeVars, messageStore, conversationStore, escaped, userBookmarks>>
          /\ IF Falsy(p.conversationId) \/ Falsy(p.userId)
               THEN out' = << ErrorTo(c, "Invalid stop typing data") >>
                    /\ UNCHANGED typingUsers
               ELSE /\ typingUsers' = typingUsers \ {TypingKey(p)}
                    /\ out' = Unicasts("stopTyping", << p.userId.v >>,
                                       [conversationId |-> p.conversationId,
                                        userId |-> p.userId, timestamp |-> Now], {})

(************************* bookmarks **************************************)
\* bookmarkUnbookmarkPost, to Post.findById
bookmarkUnbookmarkPost(t, user, postId) ==
  /\ escaped = "none" /\ FreeSlot(t)
  /\ out' = <<>>
  /\ Suspend(t, [kind |-> "http:bookmarkUnbookmarkPost", pc |-> "found", user |-> user,
                 postId |-> postId, reads |-> {postId}, post |-> FindById(postId)])
  /\ UNCHANGED <<connVars, dbVars, msgVars, escaped>>

\* bookmarkUnbookmarkPost: User.findById, 404 without the post, else the
\* pull or push on both documents in memory; both saves are then started
bookmarkFindUser(t) ==
  LET task == tasks[t] IN
  /\ escaped = "none"
  /\ task.kind = "http:bookmarkUnbookmarkPost" /\ task.pc = "found"
  /\ out' = <<>>
  /\ IF task.post = Null THEN Finish(t)
     ELSE Suspend(t, [task EXCEPT !.pc = "saving"] @@
                     [isBookmarked |-> Includes(userBookmarks[task.user], task.postId),
                      userSave |-> "pending", postSave |-> "pending"])
  /\ UNCHANGED <<connVars, dbVars, msgVars, escaped>>

\* user.save(): $pull or $push of the post id on the user's bookmarks
bookmarkSaveUser(t) ==
  LET task == tasks[t] IN
  /\ escaped = "none"
  /\ task.kind = "http:bookmarkUnbookmarkPost" /\ task.pc = "saving"
  /\ task.userSave = "pending"
  /\ out' = <<>>
  /\ userBookmarks' =
       [userBookmarks EXCEPT ![task.user] =
          IF task.isBookmarked THEN Pull(@, task.postId) ELSE Append(@, task.postId)]
  /\ Suspend(t, [task EXCEPT !.userSave = "ok"])
  /\ UNCHANGED <<connVars, dbVars, messageStore, conversationStore, typingUsers, escaped>>

\* post.save(): $pull or $push of the user id on the post's bookmarks; it
\* throws when the post is gone
bookmarkSavePost(t) ==
  LET task == tasks[t]  id == task.postId IN
  /\ escaped = "none"
  /\ task.kind = "http:bookmarkUnbookmarkPost" /\ task.pc = "saving"
  /\ task.postSave = "pending"
  /\ CanInc(id)
  /\ out' = <<>>
  /\ IF SaveThrows(id, task.post.v, FALSE)
       THEN /\ Suspend(t, [task EXCEPT !.postSave = "failed"])
            /\ UNCHANGED postStore
       ELSE /\ postStore' =
                 [postStore EXCEPT ![id] =
                    Inc([@ EXCEPT !.bookmarks =
                           IF task.isBookmarked THEN Pull(@, task.user)
                           ELSE Append(@, task.user)])]
            /\ Suspend(t, [task EXCEPT !.postSave = "ok"])
  /\ UNCHANGED <<connVars, created, msgVars, escaped>>

\* await Promise.all: 500 when a save has failed, else the re-fetch
bookmarkRefetch(t) ==
  LET task == tasks[t] IN
  /\ escaped = "none"
  /\ task.kind = "http:bookmarkUnbookmarkPost" /\ task.pc = "saving"
  /\ task.userSave # "pending" /\ task.postSave # "pending"
  /\ out' = <<>>
  /\ IF task.postSave = "failed" THEN Finish(t)
     ELSE Suspend(t, [task EXCEPT !.pc = "refetched"] @@
                     [populatedPost |-> Populate(FindById(task.postId))])
  /\ UNCHANGED <<connVars, dbVars, msgVars, escaped>>

\* bookmarkUnbookmarkPost: the broadcast to the post's room
bookmarkEmit(t) ==
  LET task == tasks[t] IN
  /\ escaped = "none"
  /\ task.kind = "http:bookmarkUnbookmarkPost" /\ task.pc = "refetched"
  /\ out' = << RoomEmit("bookmarkUnbookmarkPost", task.postId,
                 [postId |-> task.postId, userId |-> task.user,
                  bookmarked |-> ~task.isBookmarked, post |-> task.populatedPost],
                 task.reads) >>
  /\ Finish(t)
  /\ UNCHANGED <<connVars, dbVars, msgVars, escaped>>

(************************* the post router: GET ****************************)
\* path segments, as strings of characters
SegAll == <<"a","l","l">>
SegFeed == <<"f","e","e","d">>
SegStories == <<"s","t","o","r","i","e","s">>
SegUser == <<"u","s","e","r">>
SegBookmarks == <<"b","o","o","k","m","a","r","k","s">>
SegSuggested == <<"s","u","g","g","e","s","t","e","d">>
SegPost == <<"p","o","s","t">>
SegComments == <<"c","o","m","m","e","n","t","s">>
SegAlice == <<"a","l","i","c","e">>

Lit(seg) == [kind |-> "lit", seg |-> seg]
Param(name) == [kind |-> "param", name |-> name]

\* router.get(path, protectRoute, [validateObjectId(param)], handler), in the
\* order of declaration; validate is the parameter validateObjectId checks
GetRoutes ==
  << [path |-> << Lit(SegAll) >>, validate |-> "", handler |-> "getAllPosts"],
     [path |-> << Lit(SegFeed) >>, validate |-> "", handler |-> "getFeedPosts"],
     [path |-> << Lit(SegStories) >>, validate |-> "", handler |-> "getStories"],
     [path |-> << Lit(SegUser), Param("username") >>, validate |-> "",
      handler |-> "getUserPosts"],
     [path |-> << Param("id") >>, validate |-> "id", handler |-> "getPost"],
     [path |-> << Lit(SegBookmarks), Param("username") >>, validate |-> "",
      handler |-> "getBookmarks"],
     [path |-> << Lit(SegSuggested) >>, validate |-> "", handler |-> "getSuggestedPosts"],
     [path |-> << Lit(SegPost), Param("postId"), Lit(SegComments) >>,
      validate |-> "postId", handler |-> "getPaginatedComments"] >>

\* the route's path pattern matches the request path, segment by segment
Matches(route, path) ==
  /\ Len(route.path) = Len(path)
  /\ \A i \in DOMAIN path : route.path[i].kind = "lit" => route.path[i].seg = path[i]

\* req.params[paramName]
ParamOf(route, path, name) ==
  LET at == {i \in DOMAIN route.path :
               route.path[i].kind = "param" /\ route.path[i].name = name}
  IN IF at = {} THEN Undefined ELSE Str(path[CHOOSE i \in at : TRUE])

\* validateObjectId(paramName): !id || !isValidObjectId(id) answers 400
PassesValidation(route, path) ==
  \/ route.validate = ""
  \/ CastsToObjectId(ParamOf(route, path, route.validate))

\* the first route, in declaration order, whose pattern matches; 0 if none
FirstMatch(path) ==
  LET hits == {i \in DOMAIN GetRoutes : Matches(GetRoutes[i], path)}
  IN IF hits = {} THEN 0 ELSE CHOOSE i \in hits : \A j \in hits : i <= j

\* where an authenticated GET ends: protectRoute calls next(), a failed
\* validateObjectId answers 400 and ends the request, else the handler runs
Dispatch(path) ==
  LET i == FirstMatch(path) IN
  IF i = 0 THEN [status |-> 404, handler |-> "none"]
  ELSE IF ~PassesValidation(GetRoutes[i], path)
    THEN [status |-> 400, handler |-> "validateObjectId"]
  ELSE [status |-> 200, handler |-> GetRoutes[i].handler]

\* the GET paths clients request
GetPaths ==
  { << SegAll >>, << SegFeed >>, << SegStories >>, << SegUser, SegAlice >>,
    << P1 >>, << P2 >>, << SegAlice >>, << SegBookmarks, SegAlice >>, << SegSuggested >>,
    << SegPost, P1, SegComments >>, << SegPost, SegAlice, SegComments >>,
    << SegPost, P1 >> }

\* an authenticated GET arrives and is routed
getRequest(t, path) ==
  /\ escaped = "none" /\ FreeSlot(t)
  /\ out' = <<>>
  /\ Suspend(t, [kind |-> "http:get", pc |-> "routed", path |-> path,
                 reached |-> Dispatch(path)])
  /\ UNCHANGED <<connVars, dbVars, msgVars, escaped>>

\* the response of the middleware or handler the request reached
getRespond(t) ==
  /\ escaped = "none"
  /\ tasks[t].kind = "http:get" /\ tasks[t].pc = "routed"
  /\ out' = <<>>
  /\ Finish(t)
  /\ UNCHANGED <<connVars, dbVars, msgVars, escaped>>

(************************* specification **********************************)
Next ==
  \/ \E c \in Conns, hs \in Handshakes : Connect(c, hs)
  \/ \E c \in Conns : Disconnect(c)
  \/ \E c \in Conns, room \in RoomArgs : JoinPostRoom(c, room)
  \/ \E c \in Conns, room \in RoomArgs : LeavePostRoom(c, room)

Spec == Init /\ [][Next]_vars

\* the rooms a client of the fanout joins
FanoutRooms == {Str(PostRoom(P1)), Str(PostRoom(P2))}

\* the handshakes of admitted users
GoodHandshakes ==
  {[token |-> Jwt("good", FALSE, u), userId |-> Str(u)] : u \in {U1}}

\* the socket handlers of the post-scoped events, for invocations in the
\* slots S started from the sockets C
SocketHandlers(C, S) ==
  \/ \E c \in C, t \in S, p \in NewCommentPayloads : OnNewComment(c, t, p)
  \/ \E c \in C, t \in S, p \in LikeUnlikeCommentPayloads : OnLikeUnlikeComment(c, t, p)
  \/ \E c \in C, t \in S, p \in EditCommentPayloads : OnEditComment(c, t, p)
  \/ \E t \in S : OnCommentLookedUp(t)
  \/ \E t \in S : OnCommentEventEmit(t)
  \/ \E c \in C, t \in S, p \in LikeUnlikePostPayloads : OnLikeUnlikePost(c, t, p)
  \/ \E t \in S : OnLikeUnlikePostEmit(t)
  \/ \E c \in C, t \in S, p \in DeleteCommentPayloads : OnDeleteComment(c, t, p)
  \/ \E t \in S : OnDeleteCommentEmit(t)
  \/ \E c \in C, p \in PostDeletedPayloads : OnPostDeleted(c, p)

\* the HTTP handlers on comments and the deletion of a post
CommentRequests(S) ==
  \/ \E t \in S, user \in Accounts : deletePost(t, user, P1)
  \/ \E t \in S : deletePostDelete(t)
  \/ \E t \in S : deletePostEmit(t)
  \/ \E t \in S, user \in Accounts, text \in {"", "t1"} :
        editComment(t, user, P1, CID1, text)
  \/ \E t \in S : editCommentSave(t)
  \/ \E t \in S, user \in Accounts : deleteComment(t, user, P1, CID1)
  \/ \E t \in S : deleteCommentSave(t)
  \/ \E t \in S : HttpRefetch(t)
  \/ \E t \in S : HttpEmit(t)

\* the other HTTP handlers that broadcast to the post's room
OtherRequests(S) ==
  \/ \E t \in S : likeUnlikePost(t, U1, P1)
  \/ \E t \in S : likeUnlikePostSave(t)
  \/ \E t \in S, text \in {"", "t1"} : commentOnPost(t, U1, P1, text)
  \/ \E t \in S : commentOnPostSave(t)
  \/ \E t \in S : likeUnlikeComment(t, U1, P1, CID1)
  \/ \E t \in S : likeUnlikeCommentSave(t)
  \/ \E t \in S, user \in Accounts : banPost(t, user, P1)
  \/ \E t \in S, user \in Accounts : unbanPost(t, user, P1)
  \/ \E t \in S : banPostSave(t)
  \/ \E t \in S : unbanPostSave(t)

\* fanout to rooms: connections come, join, leave and go while one handler
\* invocation at a time runs
NextFanout ==
  \/ \E c \in Conns, hs \in GoodHandshakes : Connect(c, hs)
  \/ \E c \in Conns : Disconnect(c)
  \/ \E c \in Conns, room \in FanoutRooms : JoinPostRoom(c, room)
  \/ \E c \in Conns, room \in FanoutRooms : LeavePostRoom(c, room)
  \/ SocketHandlers({1}, {1})
  \/ CommentRequests({1})
  \/ OtherRequests({1})

SpecFanout == Init /\ [][NextFanout]_vars

\* interleaved handlers on one post and its comment: invocations in every
\* slot, the socket events sent from one socket
NextRace ==
  \/ \E hs \in GoodHandshakes : Connect(1, hs)
  \/ SocketHandlers({1}, Slots)
  \/ CommentRequests(Slots)

SpecRace == Init /\ [][NextRace]_vars

(************************* claims: admission and registry *****************)
\* C1: a disconnect of a connection that the registry no longer holds
\* (the user has registered a newer connection since) leaves the user's
\* registry entry as it is, so getRecipientSocketId still returns the newer
\* connection.
C1_StaleDisconnectKeepsNewer ==
  [][\A c \in Conns :
       (/\ sockets[c].st = "open"
        /\ getRecipientSocketId(sockets[c].userId) # c
        /\ Disconnect(c))
       => userSocketMap'[sockets[c].userId] = userSocketMap[sockets[c].userId]]_vars

\* the refusal conditions, as the claim words them
BadHandshake(hs) ==
  \/ Falsy(hs.token)
  \/ Falsy(hs.userId)
  \/ ~IsObjectIdString(hs.userId.v)
  \/ ~(hs.token.t = "jwt" /\ hs.token.sig = "good" /\ ~hs.token.expired)
  \/ hs.token.userId # hs.userId.v

\* C2: a connection attempt with a missing token or userId, a userId that is
\* not 24 hexadecimal characters, a token that fails verification or a token
\* issued for another identity is refused: the registry is unchanged, nothing
\* is emitted, and a refused connection is never a registry value.
C2_RefusedAttemptLeavesNoTrace ==
  [][/\ \A c \in Conns :
          sockets'[c] # sockets[c] =>
            \A hs \in Handshakes :
              (BadHandshake(hs) /\ Connect(c, hs))
              => /\ sockets'[c].st = "refused"
                 /\ userSocketMap' = userSocketMap
                 /\ out' = <<>>
     /\ \A c \in Conns, u \in Users :
          sockets'[c].st = "refused" => userSocketMap'[u] # c]_vars

\* C2 witness: a mismatched attempt was refused while another user's
\* connection is registered.
C2_Witness ==
  \E c, d \in Conns :
    /\ sockets[c].st = "refused" /\ sockets[c].err = "mismatch"
    /\ sockets[d].st = "open" /\ userSocketMap[sockets[d].userId] = d

\* C3 as stated: every attempt with a correctly signed token whose embedded
\* identity equals the claimed userId is admitted and registered.
C3_SignedAndMatchingIsAdmitted ==
  [][\A c \in Conns :
       sockets'[c] # sockets[c] =>
         \A hs \in Handshakes :
           (/\ hs.token.t = "jwt" /\ hs.token.sig = "good"
            /\ hs.userId = Str(hs.token.userId)
            /\ Connect(c, hs))
           => /\ sockets'[c] = [st |-> "open", userId |-> hs.token.userId]
              /\ userSocketMap'[hs.token.userId] = c]_vars

\* C3 amended: every attempt with a correctly signed, unexpired token whose
\* embedded identity equals the claimed userId is admitted, and after its
\* connection handler the registry maps that userId to that connection.
C3_VerifiedAndMatchingIsAdmitted ==
  [][\A c \in Conns :
       sockets'[c] # sockets[c] =>
         \A hs \in Handshakes :
           (/\ hs.token.t = "jwt" /\ hs.token.sig = "good" /\ ~hs.token.expired
            /\ hs.userId = Str(hs.token.userId)
            /\ Connect(c, hs))
           => /\ sockets'[c] = [st |-> "open", userId |-> hs.token.userId]
              /\ userSocketMap'[hs.token.userId] = c]_vars

\* C3 witness: a second connection of a user has been admitted and holds the
\* user's registry entry while the first is still open.
C3_Witness ==
  \E c, d \in Conns :
    /\ c < d
    /\ sockets[c].st = "open" /\ sockets[d].st = "open"
    /\ sockets[c].userId = sockets[d].userId
    /\ userSocketMap[sockets[d].userId] = d

(************************* claims: broadcasts ******************************)
\* C4: every event emitted to a room post:P comes from a handler invocation
\* that has read post P from the store before it emits.
C4_RoomEmitFollowsRead ==
  \A i \in DOMAIN out :
    out[i].to.kind = "room" =>
      \E p \in out[i].reads : out[i].to.room = PostRoom(p)

\* C5: when the post a socket mutation event refers to is absent at its
\* re-fetch, the handler emits an error to the triggering connection and
\* nothing else; this for deleteComment, newComment, editComment and
\* likeUnlikeComment.
C5_AbsentPostIsAnErrorOnly ==
  [][\A t \in Slots :
       (/\ tasks[t].kind \in SocketCommentKinds \cup {"deleteComment"}
        /\ tasks[t].pc = "post"
        /\ tasks[t].populatedPost = Null
        /\ (OnCommentEventEmit(t) \/ OnDeleteCommentEmit(t)))
       => /\ out' # <<>>
          /\ \A i \in DOMAIN out' :
               out'[i].ev = "error" /\ out'[i].to = ToSocket(tasks[t].socket)]_vars

\* C6: whatever payload a client sends, no exception leaves a handler.
C6_NoExceptionEscapes == escaped = "none"

\* a room argument of the form post:<id> with id a valid post identifier
ValidPostRoomArg(room) ==
  /\ room.t = "string"
  /\ StartsWith(room.v, PostPrefix)
  /\ IsObjectIdString(SubSeq(room.v, Len(PostPrefix) + 1, Len(room.v)))

\* C7: joinPostRoom and leavePostRoom change the membership of the
\* connection only for a room post:<id> with id a valid post identifier.
C7_OnlyValidPostRoomsChangeMembership ==
  [][\A c \in Conns, room \in RoomArgs :
       (~ValidPostRoomArg(room) /\ (JoinPostRoom(c, room) \/ LeavePostRoom(c, room)))
       => rooms' = rooms]_vars

PostScopedEvents ==
  {"newComment", "editComment", "deleteComment", "likeUnlikePost",
   "likeUnlikeComment", "postBanned", "postUnbanned", "postDeleted"}

\* C8: a post-scoped event for post P is delivered to exactly the open
\* connections that are members of room post:P when it is emitted.
C8_DeliveredIffMember ==
  \A i \in DOMAIN out :
    out[i].ev \in PostScopedEvents =>
      \A c \in Conns :
        c \in out[i].rcpt <=>
          (sockets[c].st = "open" /\ PostRoom(out[i].payload.postId) \in rooms[c])

\* C8 witness: an event for P1 has reached a member of post:P1 and not an
\* open connection that is in post:P2 only.
C8_Witness ==
  \E i \in DOMAIN out, c, d \in Conns :
    /\ out[i].ev \in PostScopedEvents /\ out[i].payload.postId = P1
    /\ c \in out[i].rcpt /\ PostRoom(P1) \in rooms[c]
    /\ sockets[d].st = "open" /\ rooms[d] = {PostRoom(P2)} /\ d \notin out[i].rcpt

\* C9: an HTTP editComment whose re-fetch finds the comment gone (a
\* deleteComment wrote after the edit's save) broadcasts no comment field
\* that is the edit's in-memory version of the comment.
C9_EditAfterDeleteDropsItsComment ==
  [][\A t \in Slots :
       (/\ tasks[t].kind = "http:editComment"
        /\ tasks[t].pc = "refetched"
        /\ tasks[t].populatedPost # Null
        /\ CommentIndex(tasks[t].populatedPost, tasks[t].args.commentId) = {}
        /\ HttpEmit(t))
       => \A i \in DOMAIN out' : out'[i].payload.comment # tasks[t].mem]_vars

\* C10: the likeUnlikePost and likeUnlikeComment broadcasts of the socket
\* handlers are the ones the handlers build, on the same store reads and the
\* same identifiers, for any other likes value the client may send.
C10_BroadcastIgnoresClientLikes ==
  [][\A t \in Slots, l \in LikesArgs :
       /\ (/\ tasks[t].kind = "likeUnlikePost"
           /\ tasks[t].populatedPost # Null
           /\ OnLikeUnlikePostEmit(t))
          => out' = << RoomEmit("likeUnlikePost", tasks[t].postId,
                         LikeUnlikePostPayload(tasks[t].populatedPost, tasks[t].postId,
                                               tasks[t].userId, l),
                         tasks[t].reads) >>
       /\ (/\ tasks[t].kind = "likeUnlikeComment"
           /\ tasks[t].pc = "post"
           /\ OnCommentEventEmit(t))
          => out' = << RoomEmit("likeUnlikeComment", tasks[t].postId,
                         CommentEventPayload([tasks[t] EXCEPT !.extra.likes = l]),
                         tasks[t].reads) >>]_vars

(************************* claims: validation *****************************)
\* an identifier that is missing or that is not an object id
MalformedId(x) == Falsy(x) \/ ~CastsToObjectId(x)

\* the step emits an error to connection c and nothing else, and writes
\* nothing to the store
ErrorOnlyTo(c) ==
  /\ out' # <<>>
  /\ \A i \in DOMAIN out' : out'[i].ev = "error" /\ out'[i].to = ToSocket(c)
  /\ UNCHANGED <<dbVars, messageStore, conversationStore, userBookmarks>>

\* C11: a client event whose required identifiers are missing or malformed
\* gets an error event on the triggering connection only: no broadcast, no
\* store update.  Stated for postDeleted, newComment and likeUnlikePost.
C11_MalformedIdsGetAnErrorOnly ==
  [][\A c \in Conns :
       /\ \A p \in PostDeletedPayloads \ {Undefined} :
            ((MalformedId(p.postId) \/ MalformedId(p.userId)) /\ OnPostDeleted(c, p))
            => ErrorOnlyTo(c)
       /\ \A t \in Slots, p \in NewCommentPayloads \ {Undefined} :
            (/\ MalformedId(p.postId) \/ MalformedId(IdOfComment(p.comment))
             /\ OnNewComment(c, t, p))
            => ErrorOnlyTo(c)
       /\ \A t \in Slots, p \in LikeUnlikePostPayloads \ {Undefined} :
            ((MalformedId(p.postId) \/ MalformedId(p.userId)) /\ OnLikeUnlikePost(c, t, p))
            => ErrorOnlyTo(c)]_vars

(************************* claims: new posts ******************************)
\* the handshakes of the admitted users U1 and U2
FeedHandshakes ==
  {[token |-> Jwt("good", FALSE, u), userId |-> Str(u)] : u \in Users}

\* post creation: connections of U1 and U2 come, join rooms and go while
\* posts are announced over the socket and created over HTTP
NextPosts ==
  \/ \E c \in Conns, hs \in FeedHandshakes : Connect(c, hs)
  \/ \E c \in Conns : Disconnect(c)
  \/ \E c \in Conns, room \in FanoutRooms : JoinPostRoom(c, room)
  \/ \E c \in Conns, room \in FanoutRooms : LeavePostRoom(c, room)
  \/ \E c \in Conns, p \in NewPostPayloads : OnNewPost(c, 1, p)
  \/ OnNewPostFound(1)
  \/ OnNewPostEmit(1)
  \/ \E user, postedBy \in Users, text \in {"", "t1"} : createPost(1, user, postedBy, text)
  \/ createPostSave(1)
  \/ createPostRefetch(1)
  \/ createPostEmit(1)

SpecPosts == Init /\ [][NextPosts]_vars

\* C12: when a post's creation is announced, every follower of the post's
\* stored author that has a registry entry is sent the newPost event on the
\* connection the registry holds for it.
C12_NewPostReachesFollowers ==
  \A i \in DOMAIN out :
    (out[i].ev = "newFeedPost" /\ out[i].payload # Null) =>
      \A f \in Followers(out[i].payload.postedBy._id) :
        getRecipientSocketId(f) # NoSocket =>
          \E j \in DOMAIN out :
            out[j].ev = "newPost" /\ out[j].to = ToSocket(getRecipientSocketId(f))

\* C13: the newFeedPost notification of a post creation is delivered to
\* every open connection, whatever rooms it has joined.
C13_FeedNoticeReachesAll ==
  \A i \in DOMAIN out : out[i].ev = "newFeedPost" => out[i].rcpt = OpenSockets

(************************* claims: registry and presence ******************)
\* C14: a registry entry for user u, when present, is an open connection
\* admitted as u, no connection of u registered after it is open, and the
\* entry changes only to the connection a registration has just added.
C14_EntryIsLatestOpenConnection ==
  [][\A u \in Users :
       LET e == userSocketMap'[u] IN
       e # NoSocket =>
         /\ sockets'[e] = [st |-> "open", userId |-> u]
         /\ \A d \in Conns :
              (d > e /\ sockets'[d].st = "open") => sockets'[d].userId # u
         /\ \A d \in Conns :
              (sockets[d].st = "free" /\ sockets'[d] = [st |-> "open", userId |-> u])
              => e = d
         /\ e # userSocketMap[u] => sockets[e].st = "free"]_vars

\* C14 witness: the first connection has gone and a later connection holds
\* its user's registry entry.
C14_Witness ==
  \E u \in Users, c, d \in Conns :
    /\ c < d /\ sockets[c].st = "closed"
    /\ sockets[d] = [st |-> "open", userId |-> u] /\ userSocketMap[u] = d

\* C15: every registration and every disconnect of an admitted connection
\* emits one getOnlineUsers event to all connections carrying the registry's
\* key set after the step, and the registry changes in no other step: the
\* last getOnlineUsers emitted is the current key set.
C15_OnlineUsersIsRegistryKeys ==
  [][/\ (\/ userSocketMap' # userSocketMap
         \/ \E c \in Conns : /\ sockets'[c].st # sockets[c].st
                             /\ sockets'[c].st \in {"open", "closed"})
        => /\ Len(out') = 1
           /\ out'[1].ev = "getOnlineUsers"
           /\ out'[1].to = ToAll
           /\ out'[1].rcpt = {d \in Conns : sockets'[d].st = "open"}
     /\ \A i \in DOMAIN out' :
          out'[i].ev = "getOnlineUsers" =>
            out'[i].payload = {u \in Users : userSocketMap'[u] # NoSocket}]_vars

\* C15 witness: after a disconnect, the event lists the one user that is left.
C15_Witness ==
  /\ \E c \in Conns : sockets[c].st = "closed"
  /\ Len(out) = 1 /\ out[1].ev = "getOnlineUsers"
  /\ \E u \in Users : out[1].payload = {u} /\ userSocketMap[u] # NoSocket

(************************* claims: likes **********************************)
\* like toggles on one post: requests of U1 and U2 in every slot, interleaved
NextLikes ==
  \/ \E t \in Slots, user \in Users : likeUnlikePost(t, user, P1)
  \/ \E t \in Slots : likeUnlikePostSave(t)
  \/ \E t \in Slots : HttpRefetch(t)
  \/ \E t \in Slots : HttpEmit(t)

SpecLikes == Init /\ [][NextLikes]_vars

NoDuplicates(seq) == \A i, j \in DOMAIN seq : i # j => seq[i] # seq[j]

\* C16: after any sequence of likeUnlikePost requests, interleaved or not,
\* the post's likes in the store hold each user at most once, and so do the
\* likes and the post of every likeUnlikePost broadcast of the requests.
C16_LikesHoldEachUserOnce ==
  /\ \A id \in PostIds : postStore[id] # NoPost => NoDuplicates(postStore[id].likes)
  /\ \A i \in DOMAIN out :
       out[i].ev = "likeUnlikePost" =>
         /\ NoDuplicates(out[i].payload.likes)
         /\ NoDuplicates(out[i].payload.post.likes)

\* C16 witness: U1 has liked and then unliked the post, and the broadcast of
\* the second request carries the empty like set.
C16_Witness ==
  \E i \in DOMAIN out :
    /\ out[i].ev = "likeUnlikePost" /\ out[i].payload.userId = U1
    /\ out[i].payload.likes = <<>>
    /\ postStore[P1].v = 2 /\ postStore[P1].likes = <<>>

(************************* claims: timestamps *****************************)
\* the mutation events of the handlers modelled here
MutationEvents ==
  PostScopedEvents \cup {"newPost", "newFeedPost", "postDeletedFromFeed"}

\* C17: every mutation event emitted, by a socket handler or by an HTTP
\* handler, has a timestamp field in its payload.
C17_MutationEventsCarryTimestamp ==
  \A i \in DOMAIN out :
    out[i].ev \in MutationEvents => "timestamp" \in DOMAIN out[i].payload

(************************* claims: direct messages ************************)
\* direct messages: connections of U1 and U2 come and go while messages are
\* sent, acknowledged and marked as seen
NextMessages ==
  \/ \E c \in Conns, hs \in FeedHandshakes : Connect(c, hs)
  \/ \E c \in Conns : Disconnect(c)
  \/ \E c \in Conns, p \in NewMessagePayloads : OnNewMessage(c, p)
  \/ \E c \in Conns, p \in MessageDeliveredPayloads : OnMessageDelivered(c, 1, p)
  \/ OnMessageDeliveredEmit(1)
  \/ \E c \in Conns, p \in MarkMessagesAsSeenPayloads : OnMarkMessagesAsSeen(c, 1, p)
  \/ OnMarkSeenFind(1)
  \/ OnMarkSeenUpdate(1)
  \/ OnMarkSeenConversation(1)
  \/ OnMarkSeenEmit(1)

SpecMessages == Init /\ [][NextMessages]_vars

MessageEvents == {"newMessage", "messageDelivered", "messagesSeen"}

\* the tasks that end in this step by emitting the event e
EmittingTasks(e) ==
  {t \in Slots : /\ tasks[t] # tasks'[t]
                 /\ tasks[t].kind = "messageDelivered" /\ tasks[t].pc = "updated"
                 /\ tasks[t].updatedMessage # Null
                 /\ tasks[t].messageId = e.payload.messageId}

\* the users a message event is about: the message's sender and recipient,
\* or the participants of the conversation
PartiesOf(e) ==
  CASE e.ev = "newMessage" -> {e.payload.recipientId.v, e.payload.sender._id.v}
    [] e.ev = "messagesSeen" ->
         {conversationStore[e.payload.conversationId].participants[j] :
            j \in DOMAIN conversationStore[e.payload.conversationId].participants}
    [] e.ev = "messageDelivered" ->
         UNION {{tasks[t].updatedMessage.sender, tasks[t].recipientId} :
                  t \in EmittingTasks(e)}

\* C18: newMessage, messageDelivered and messagesSeen are emitted only to a
\* single connection, the one the registry holds for the sender, the
\* recipient or a participant; never to a room or to every connection.
C18_MessageEventsAreUnicastByRegistry ==
  [][\A i \in DOMAIN out' :
       out'[i].ev \in MessageEvents =>
         /\ out'[i].to.kind = "socket"
         /\ out'[i].rcpt = {out'[i].to.id}
         /\ out'[i].to.id # NoSocket
         /\ \E u \in PartiesOf(out'[i]) : getRecipientSocketId(u) = out'[i].to.id]_vars

\* the open connection of U2 gets no copy of a message
\* event sent to U1 alone
C18_Witness ==
  /\ \E i \in DOMAIN out : out[i].ev = "newMessage"
  /\ getRecipientSocketId(U2) # NoSocket
  /\ \A i \in DOMAIN out : out[i].to = ToSocket(getRecipientSocketId(U1))

\* the users of ids that have a registry entry
Resolved(ids) ==
  {ids[j] : j \in {k \in DOMAIN ids : getRecipientSocketId(ids[k]) # NoSocket}}

\* the event ev reaches, in this step, the registry entry of every user of
\* ids that has one, and no error event is sent
DeliveredToResolved(ev, ids) ==
  /\ \A i \in DOMAIN out' : out'[i].ev # "error"
  /\ \A u \in Resolved(ids) :
       \E i \in DOMAIN out' :
         /\ out'[i].ev = ev
         /\ out'[i].to = ToSocket(getRecipientSocketId(u))
         /\ out'[i].rcpt = {getRecipientSocketId(u)}
  /\ Len(out') = Cardinality({j \in DOMAIN ids : getRecipientSocketId(ids[j]) # NoSocket})

\* C19: a target of a unicast that has no registry entry is skipped: no
\* error event is sent, the targets that have an entry still get the event,
\* and the store holds the update (status delivered; seen with status seen).
C19_AbsentTargetIsSkippedSilently ==
  [][\A t \in Slots :
       /\ (tasks[t] # tasks'[t] /\ tasks[t].kind = "messageDelivered"
           /\ tasks[t].pc = "updated" /\ tasks[t].updatedMessage # Null) =>
            /\ DeliveredToResolved("messageDelivered",
                                   << tasks[t].updatedMessage.sender, tasks[t].recipientId >>)
            /\ tasks[t].updatedMessage.status = "delivered"
            /\ messageStore'[tasks[t].messageId.v].status \in {"delivered", "seen"}
       /\ (tasks[t] # tasks'[t] /\ tasks[t].kind = "markMessagesAsSeen"
           /\ tasks[t].pc = "updated") =>
            /\ DeliveredToResolved("messagesSeen", tasks[t].conversation.participants)
            /\ \A j \in DOMAIN tasks[t].seenMessageIds :
                 /\ messageStore'[tasks[t].seenMessageIds[j]].seen
                 /\ messageStore'[tasks[t].seenMessageIds[j]].status = "seen"
            /\ conversationStore'[tasks[t].conversationId].lastMessage.seen]_vars

\* the acknowledgement is stored and reaches the sender while the recipient
\* has no registry entry
C19_Witness ==
  /\ messageStore[M1].status = "delivered"
  /\ getRecipientSocketId(U2) = NoSocket
  /\ getRecipientSocketId(U1) # NoSocket
  /\ Len(out) = 1
  /\ out[1].ev = "messageDelivered"
  /\ out[1].to = ToSocket(getRecipientSocketId(U1))

(************************* claims: typing *********************************)
\* typing indicators: connections of U1 and U2 come and go while typing is
\* signalled and withdrawn
NextTyping ==
  \/ \E c \in Conns, hs \in FeedHandshakes : Connect(c, hs)
  \/ \E c \in Conns : Disconnect(c)
  \/ \E c \in Conns, p \in TypingPayloads : OnTyping(c, p)
  \/ \E c \in Conns, p \in TypingPayloads : OnStopTyping(c, p)

SpecTyping == Init /\ [][NextTyping]_vars

TypingEvents == {"typing", "stopTyping"}

\* C20: a typing or stopTyping notice is unicast to the other party of the
\* conversation, never to the connection of the user named in the typing key.
C20_TypingNoticeGoesToTheOtherParty ==
  \A i \in DOMAIN out :
    out[i].ev \in TypingEvents =>
      out[i].to # ToSocket(getRecipientSocketId(out[i].payload.userId.v))

(************************* claims: snapshots ******************************)
\* C21: the post a newComment or likeUnlikePost broadcast carries is the
\* store's state at some time not before the broadcast's timestamp.  Posts
\* are never re-created and versions never decrease, so when the timestamp
\* is taken the post is still in the store and its version is not above the
\* carried one.
C21_SnapshotIsNotOlderThanTimestamp ==
  \A i \in DOMAIN out :
    (/\ out[i].ev \in {"newComment", "likeUnlikePost"}
     /\ out[i].to.kind = "room"
     /\ out[i].payload.post # Null) =>
      /\ FindById(out[i].payload.postId) # Null
      /\ FindById(out[i].payload.postId).v <= out[i].payload.post.v

(************************* claims: new comments ***************************)
\* comments: U1 and U2 comment on post P1 over HTTP, in either slot, while
\* socket 1 announces comments
NextComments ==
  \/ \E hs \in GoodHandshakes : Connect(1, hs)
  \/ \E t \in Slots, p \in NewCommentPayloads : OnNewComment(1, t, p)
  \/ \E t \in Slots : OnCommentLookedUp(t)
  \/ \E t \in Slots : OnCommentEventEmit(t)
  \/ \E t \in Slots, user \in Users, text \in {"", "t1"} : commentOnPost(t, user, P1, text)
  \/ \E t \in Slots : commentOnPostSave(t)
  \/ \E t \in Slots : HttpRefetch(t)
  \/ \E t \in Slots : HttpEmit(t)

SpecComments == Init /\ [][NextComments]_vars

\* C22: the comment of a newComment broadcast is the one the triggering
\* request created (commentOnPost: written by the request's user) or named
\* (socket newComment: comment._id), with the author's fields from the
\* store, also when other comments are added to the post concurrently.
C22_NewCommentCarriesTheRequestsComment ==
  [][\A t \in Slots : \A i \in DOMAIN out' :
       (tasks'[t] = Idle /\ out'[i].ev = "newComment") =>
         /\ (tasks[t].kind = "http:commentOnPost" /\ tasks[t].pc = "refetched") =>
              out'[i].payload.comment.userId = UserDoc(tasks[t].user)
         /\ (tasks[t].kind = "newComment" /\ tasks[t].pc = "post") =>
              /\ out'[i].payload.comment._id = tasks[t].commentId
              /\ out'[i].payload.comment.userId =
                   UserDoc(tasks[t].populatedComment.comments[1].userId._id)]_vars

(************************* claims: the typing store ***********************)
\* the payloads that pass the validation of typing and stopTyping
TypingPairs ==
  [conversationId : ConversationIdArgs \ {Undefined}, userId : PartyArgs \ {Undefined}]

\* C23: typing adds exactly the key (conversationId, userId) and stopTyping
\* for the same pair removes exactly that key, so typing followed at once by
\* stopTyping leaves the typing store as it was when the key was absent.
C23_TypingThenStopTypingIsIdentity ==
  [][\A c \in Conns, p \in TypingPairs :
       /\ (OnTyping(c, p) /\ TypingKey(p) \notin typingUsers) =>
            /\ TypingKey(p) \in typingUsers'
            /\ typingUsers' \ {TypingKey(p)} = typingUsers
       /\ OnStopTyping(c, p) =>
            /\ TypingKey(p) \notin typingUsers'
            /\ typingUsers' \cup {TypingKey(p)} = typingUsers \cup {TypingKey(p)}]_vars

\* stopTyping for (K1, U1) has just acted: that key is gone and the key of
\* U2 is still there
C23_Witness ==
  /\ typingUsers = {<< K1, U2 >>}
  /\ \E i \in DOMAIN out :
       /\ out[i].ev = "stopTyping"
       /\ out[i].payload.conversationId = Str(K1)
       /\ out[i].payload.userId = Str(U1)

\* C24: a typing key leaves the typing store only in a stopTyping step for
\* the same pair; a disconnect of the typing user's connection leaves it.
C24_OnlyStopTypingRemovesAKey ==
  [][\A k \in typingUsers :
       k \notin typingUsers' =>
         \E c \in Conns, p \in TypingPairs : TypingKey(p) = k /\ OnStopTyping(c, p)]_vars

\* U1's key is in the typing store and every connection of U1 is closed
C24_Witness ==
  /\ << K1, U1 >> \in typingUsers
  /\ getRecipientSocketId(U1) = NoSocket
  /\ \E c \in Conns : sockets[c].st = "closed"
  /\ \A c \in Conns : sockets[c].st = "open" => sockets[c].userId # U1

(************************* claims: concurrent likes ***********************)
\* C25: when likeUnlikePost requests of different users on one post
\* interleave, the save of each applies its user's toggle to the stored like
\* set, whatever the other request has saved since this one read the post.
C25_ConcurrentLikesAreBothApplied ==
  [][\A t \in Slots :
       LET task == tasks[t] IN
       (/\ task.kind = "http:likeUnlikePost" /\ task.pc = "found"
        /\ tasks'[t] # task
        /\ task.post # Null
        /\ postStore[task.postId] # NoPost
        /\ Includes(postStore[task.postId].likes, task.user)
             = Includes(task.post.likes, task.user)) =>
         Includes(postStore'[task.postId].likes, task.user)
           = ~Includes(task.post.likes, task.user)]_vars

(************************* claims: the named user *************************)
\* C26: a socket event that names a userId changes the store only when that
\* userId is the identity the triggering connection was admitted with; a
\* connection does not mark another user's messages as seen.
C26_OnlyTheNamedUsersOwnConnectionActs ==
  [][\A t \in Slots :
       (/\ tasks[t].kind = "markMessagesAsSeen"
        /\ tasks'[t] # tasks[t]
        /\ messageStore' # messageStore
        /\ sockets[tasks[t].socket].st = "open") =>
         sockets[tasks[t].socket].userId = tasks[t].userId.v]_vars

(************************* claims: banned posts ***************************)
\* moderation: the admin bans and unbans post P1 while users like it and
\* edit or delete its comment, in either slot
NextBan ==
  \/ \E t \in Slots, user \in Accounts : banPost(t, user, P1)
  \/ \E t \in Slots, user \in Accounts : unbanPost(t, user, P1)
  \/ \E t \in Slots : banPostSave(t)
  \/ \E t \in Slots : unbanPostSave(t)
  \/ \E t \in Slots, user \in Users : likeUnlikePost(t, user, P1)
  \/ \E t \in Slots : likeUnlikePostSave(t)
  \/ \E t \in Slots, user \in Users, text \in {"", "t1"} : editComment(t, user, P1, CID1, text)
  \/ \E t \in Slots : editCommentSave(t)
  \/ \E t \in Slots, user \in Users : deleteComment(t, user, P1, CID1)
  \/ \E t \in Slots : deleteCommentSave(t)
  \/ \E t \in Slots : HttpRefetch(t)
  \/ \E t \in Slots : HttpEmit(t)

SpecBan == Init /\ [][NextBan]_vars

\* the handlers that a ban closes
ClosedByBan ==
  {"http:likeUnlikePost", "http:commentOnPost", "http:editComment",
   "http:deleteComment", "http:likeUnlikeComment"}

\* C27: a like, comment, comment edit, comment deletion or comment like
\* request that finds its post banned leaves the post as it is and ends
\* without a broadcast.
C27_BannedPostIsLeftAlone ==
  [][\A t \in Slots :
       LET task == tasks[t] IN
       (/\ task.kind \in ClosedByBan /\ task.pc = "found"
        /\ tasks'[t] # task
        /\ task.post # Null
        /\ task.post.isBanned) =>
         /\ postStore' = postStore
         /\ tasks'[t] = Idle
         /\ out' = <<>>]_vars

(************************* claims: ban broadcasts *************************)
\* moderation of post P1: bans, unbans and deletions by any account, in
\* either slot
NextModeration ==
  \/ \E t \in Slots, user \in Accounts : banPost(t, user, P1)
  \/ \E t \in Slots, user \in Accounts : unbanPost(t, user, P1)
  \/ \E t \in Slots : banPostSave(t)
  \/ \E t \in Slots : unbanPostSave(t)
  \/ \E t \in Slots, user \in Accounts : deletePost(t, user, P1)
  \/ \E t \in Slots : deletePostDelete(t)
  \/ \E t \in Slots : deletePostEmit(t)
  \/ \E t \in Slots : HttpRefetch(t)
  \/ \E t \in Slots : HttpEmit(t)

\* a handler suspended at an await is resumed
SpecModeration ==
  /\ Init /\ [][NextModeration]_vars
  /\ \A t \in Slots : WF_vars(HttpRefetch(t)) /\ WF_vars(HttpEmit(t))

\* the request in slot t has saved the flag and has not broadcast yet
BanSaved(t, kind) == tasks[t].kind = kind /\ tasks[t].pc = "saved"

\* the broadcast ev to the room of P1, with a post whose flag is `banned`
BanBroadcast(ev, banned) ==
  \E i \in DOMAIN out :
    /\ out[i].ev = ev
    /\ out[i].to = ToRoom(PostRoom(P1))
    /\ out[i].payload.post.isBanned = banned

\* isBanned changes only in a step of a ban or unban request of an admin
OnlyAdminsChangeTheFlag ==
  [][\A id \in PostIds :
       (/\ postStore[id] # NoPost /\ postStore'[id] # NoPost
        /\ postStore'[id].isBanned # postStore[id].isBanned) =>
         \E t \in Slots : /\ tasks[t].kind \in {"http:banPost", "http:unbanPost"}
                          /\ tasks'[t] # tasks[t]
                          /\ IsAdmin(tasks[t].user)]_vars

NextRoutes ==
  \/ \E t \in Slots, path \in GetPaths : getRequest(t, path)
  \/ \E t \in Slots : getRespond(t)

SpecRoutes == Init /\ [][NextRoutes]_vars

\* C29: a GET request whose path is that of a route of the post router,
\* with parameters that pass the route's validation, reaches the handler of
\* that route; GET /suggested reaches getSuggestedPosts.
C29_EveryGetRouteReachesItsHandler ==
  \A t \in Slots :
    tasks[t].kind = "http:get" =>
      \A i \in DOMAIN GetRoutes :
        (/\ Matches(GetRoutes[i], tasks[t].path)
         /\ PassesValidation(GetRoutes[i], tasks[t].path)) =>
          tasks[t].reached.handler = GetRoutes[i].handler

(************************* claims: bookmarks ******************************)
\* bookmarks: U1 and U2 bookmark and unbookmark post P1, in either slot
NextBookmarks ==
  \/ \E t \in Slots, user \in Users : bookmarkUnbookmarkPost(t, user, P1)
  \/ \E t \in Slots : bookmarkFindUser(t)
  \/ \E t \in Slots : bookmarkSaveUser(t)
  \/ \E t \in Slots : bookmarkSavePost(t)
  \/ \E t \in Slots : bookmarkRefetch(t)
  \/ \E t \in Slots : bookmarkEmit(t)

SpecBookmarks == Init /\ [][NextBookmarks]_vars

\* C30: when no bookmark request is in progress, post P1 is in a user's
\* bookmarks exactly when the user is in P1's bookmarks, and neither list
\* holds an element twice.
C30_BookmarksAgreeAndHoldNoDuplicate ==
  (\A t \in Slots : tasks[t] = Idle) =>
    /\ NoDuplicates(postStore[P1].bookmarks)
    /\ \A u \in Users :
         /\ NoDuplicates(userBookmarks[u])
         /\ Includes(userBookmarks[u], P1) = Includes(postStore[P1].bookmarks, u)

====
